---------------------------- MODULE Spec2Model ----------------------------
(***************************************************************************)
(* Shadow/Highlights tonal-correction filter (ShadowHighlightsFilter,      *)
(* ColorConverter, LabImageProcessor).                                     *)
(*                                                                         *)
(* A C++ float is an IEEE-754 binary32.  It is modelled by the integer     *)
(* whose magnitude is the 31 low bits of its bit pattern (biased exponent  *)
(* * 2^23 + fraction) and whose sign is the float's sign.  On non-NaN      *)
(* floats the integer order is the float order.  Zero is 0 (the sign of    *)
(* zero is dropped) and subnormal results are flushed to 0; the pipeline   *)
(* never produces either.  +, -, *, / round to nearest-even exactly as the *)
(* hardware does; pow and exp are faithful (within one unit in the last    *)
(* place of the correctly rounded result).                                 *)
(***************************************************************************)
EXTENDS Integers, Sequences, FiniteSets, TLC

-----------------------------------------------------------------------------
(* binary32 arithmetic *)

P12 == 2^12
P15 == 2^15
P23 == 2^23
P24 == 2^24
P30 == 2^30
INF == 255 * P23
NaN == INF + 2^22

Abs(a) == IF a >= 0 THEN a ELSE -a
\* The value of a block of statements is that of its last one.  TLC evaluates
\* the components of a tuple in order, as C++ executes statements in order.
Last(block) == block[Len(block)]
Signed(neg, v) == IF neg THEN -v ELSE v
IsNaN(x) == Abs(x) > INF
IsInf(x) == Abs(x) = INF
\* biased exponent and significand (with the hidden bit) of a normal float
Ex(x) == Abs(x) \div P23
Man(x) == (Abs(x) % P23) + P23

\* s + w when m has more than s + w bits, else s
Halve(m, s, w) == IF m \div 2^s >= 2^w THEN s + w ELSE s
\* the number of bits of m, 0 < m < 2^31, by halving the search range
BitLen(m) == Halve(m, Halve(m, Halve(m, Halve(m, Halve(m, 0, 16), 8), 4), 2), 1) + 1

\* the float with sign neg, biased exponent e and significand t, P23 <= t < P24
Pack(neg, t, e) ==
  IF e >= 255 THEN Signed(neg, INF)
  ELSE IF e <= 0 THEN 0
  ELSE Signed(neg, e * P23 + (t - P23))

\* 1 when the bits rem cut off below the unit 2 * half round the kept bits up
RoundBit(rem, half, sticky, odd) ==
  IF rem > half \/ (rem = half /\ (sticky \/ odd)) THEN 1 ELSE 0

\* rounding up to 2^24 carries into the next exponent
Carry(neg, t, e) == IF t = P24 THEN Pack(neg, P23, e + 1) ELSE Pack(neg, t, e)

\* RoundPack for an m of 24 + k bits
RoundAt(neg, m, e, sticky, k) ==
  IF k <= 0 THEN Pack(neg, m * 2^(-k), e + k)
  ELSE Carry(neg,
             m \div 2^k + RoundBit(m % 2^k, 2^(k - 1), sticky, (m \div 2^k) % 2 = 1),
             e + k)

\* The float nearest (ties to even) to (m + f) * 2^q, where 0 <= f < 1 and
\* f > 0 iff sticky; with sticky set, m has at least 25 bits.
RoundPack(neg, m, q, sticky) ==
  IF m = 0 THEN 0 ELSE RoundAt(neg, m, q + 150, sticky, BitLen(m) - 24)

\* int -> float conversion, |n| < 2^31
FromInt(n) == RoundPack(n < 0, Abs(n), 0, FALSE)

\* The float nearest to (q0 + r/d) * 2^q: long division, 7 quotient bits a
\* step, until the quotient has at least 25 bits.  0 <= r < d < 2^24.
RECURSIVE LongDiv(_, _, _, _, _)
LongDiv(neg, q0, r, d, q) ==
  IF q0 >= P24 THEN RoundPack(neg, q0, q, r # 0)
  ELSE LongDiv(neg, q0 * 128 + (r * 128) \div d, (r * 128) % d, d, q - 7)

\* the float a decimal literal n/d denotes (n >= 0, 0 < d < 2^24)
Ratio(n, d) == LongDiv(FALSE, n \div d, n % d, d, 0)

\* the float nearest to (high * 2^24 + low) * 2^(q + 18), low < 2^24
MulRound(neg, high, low, q) ==
  RoundPack(neg, high * 64 + low \div 2^18, q, low % 2^18 # 0)

\* high * 2^24 + low with the carry of low moved into high
MulCarry(neg, high, low, q) == MulRound(neg, high + low \div P24, low % P24, q)

\* hh * 2^24 + mid * 2^12 + ll
MulSum(neg, hh, mid, ll, q) ==
  MulCarry(neg, hh + mid \div P12, (mid % P12) * P12 + ll, q)

\* the product of the significands ah * 2^12 + al and bh * 2^12 + bl
MulMan(neg, ah, al, bh, bl, q) == MulSum(neg, ah * bh, ah * bl + al * bh, al * bl, q)

FMul(a, b) ==
  IF IsNaN(a) \/ IsNaN(b) THEN NaN
  ELSE IF IsInf(a) \/ IsInf(b)
       THEN (IF a = 0 \/ b = 0 THEN NaN ELSE Signed((a < 0) # (b < 0), INF))
  ELSE IF Ex(a) = 0 \/ Ex(b) = 0 THEN 0
  ELSE MulMan((a < 0) # (b < 0), Man(a) \div P12, Man(a) % P12, Man(b) \div P12,
              Man(b) % P12, Ex(a) + Ex(b) - 282)

FDiv(a, b) ==
  IF IsNaN(a) \/ IsNaN(b) THEN NaN
  ELSE IF IsInf(a) THEN (IF IsInf(b) THEN NaN ELSE Signed((a < 0) # (b < 0), INF))
  ELSE IF IsInf(b) THEN 0
  ELSE IF Ex(b) = 0 THEN (IF Ex(a) = 0 THEN NaN ELSE Signed((a < 0) # (b < 0), INF))
  ELSE IF Ex(a) = 0 THEN 0
  ELSE LongDiv((a < 0) # (b < 0), Man(a) \div Man(b), Man(a) % Man(b), Man(b),
               Ex(a) - Ex(b))

\* the sum of the significands ma and mb (mb aligned to ma, st set when bits
\* of it were shifted out), with the sign and the exponent of a
AddMan(a, b, ma, mb, st) ==
  RoundPack(a < 0,
            IF (a < 0) = (b < 0) THEN ma + mb ELSE ma - mb - (IF st THEN 1 ELSE 0),
            Ex(a) - 156, st)

\* a + b for |a| >= |b|, both finite
AddOrdered(a, b) ==
  IF Ex(b) = 0 THEN (IF Ex(a) = 0 THEN 0 ELSE a)
  ELSE IF Ex(a) - Ex(b) > 30 THEN AddMan(a, b, Man(a) * 64, 0, TRUE)
  ELSE AddMan(a, b, Man(a) * 64, (Man(b) * 64) \div 2^(Ex(a) - Ex(b)),
              (Man(b) * 64) % 2^(Ex(a) - Ex(b)) # 0)

FAdd(a, b) ==
  IF IsNaN(a) \/ IsNaN(b) THEN NaN
  ELSE IF IsInf(a) THEN (IF IsInf(b) /\ a # b THEN NaN ELSE a)
  ELSE IF IsInf(b) THEN b
  ELSE IF Abs(a) >= Abs(b) THEN AddOrdered(a, b) ELSE AddOrdered(b, a)

FNeg(a) == -a
FSub(a, b) == FAdd(a, FNeg(b))

\* the comparison operators of C++ on floats: false when an operand is NaN
FLt(a, b) == ~IsNaN(a) /\ ~IsNaN(b) /\ a < b
FLe(a, b) == ~IsNaN(a) /\ ~IsNaN(b) /\ a <= b
FGt(a, b) == FLt(b, a)
FGe(a, b) == FLe(b, a)

\* static_cast<int>(float): truncation toward zero (|value| < 2^31)
Trunc(a) ==
  IF Ex(a) < 127 THEN 0
  ELSE IF Ex(a) <= 150 THEN Signed(a < 0, Man(a) \div 2^(150 - Ex(a)))
  ELSE Signed(a < 0, Man(a) * 2^(Ex(a) - 150))

\* std::max(a, b) is (a < b) ? b : a and std::min(a, b) is (b < a) ? b : a
StdMax(a, b) == IF FLt(a, b) THEN b ELSE a
StdMin(a, b) == IF FLt(b, a) THEN b ELSE a

-----------------------------------------------------------------------------
(* pow and exp, computed in 30-bit fixed point and rounded to binary32 *)

\* round(a * b / 2^30) for 0 <= a, b <= 2^30
MulQ30(a, b) ==
  (a \div P15) * (b \div P15)
  + ((a \div P15) * (b % P15) + (a % P15) * (b \div P15)
     + ((a % P15) * (b % P15) + 2^29) \div P15) \div P15

\* hh * 2^30 + mid * 2^15 + ll as hi * 2^30 + lo
SumHL(hh, mid, ll) ==
  [hi |-> hh + mid \div P15 + ((mid % P15) * P15 + ll) \div P30,
   lo |-> ((mid % P15) * P15 + ll) % P30]

\* a * b = hi * 2^30 + lo for 0 <= a, b < 2^30
MulHL(a, b) ==
  SumHL((a \div P15) * (b \div P15),
        (a \div P15) * (b % P15) + (a % P15) * (b \div P15), (a % P15) * (b % P15))

\* floor((q + r / d) * 32^steps) for 0 <= r < d < 2^26: five quotient bits
\* a step
RECURSIVE DivQ30(_, _, _, _)
DivQ30(q, r, d, steps) ==
  IF steps = 0 \/ q + r = 0 THEN q * 32^steps
  ELSE DivQ30(q * 32 + (r * 32) \div d, (r * 32) % d, d, steps - 1)

\* (1/k + z2 * rest) in Q30
AtanhTerm(z2, k, rest) ==
  (P30 + k \div 2) \div k + (IF rest = 0 THEN 0 ELSE MulQ30(z2, rest))

\* 1/k + z2/(k+2) + z2^2/(k+4) + ... up to the term with 1/13, by Horner
RECURSIVE AtanhTail(_, _)
AtanhTail(z2, k) ==
  IF k > 13 THEN 0 ELSE AtanhTerm(z2, k, AtanhTail(z2, k + 2))

\* z + z * z2 * (1/3 + z2/5 + ...), z2 = z * z
AtanhSeries(z, z2) == z + MulQ30(z, MulQ30(z2, AtanhTail(z2, 3)))

\* atanh(z) in Q30 for 0 <= z < 0.1716
Atanh(z) == AtanhSeries(z, MulQ30(z, z))

\* |ln(m / one)| in Q30, for m/one in [0.707, 1.414)
LnMant(m, one) ==
  IF m >= one THEN 2 * Atanh(DivQ30(0, m - one, m + one, 6))
  ELSE 2 * Atanh(DivQ30(0, one - m, m + one, 6))

\* t1 + the terms after it, t1 being the n-th term
RECURSIVE Expm1(_, _, _)
Expm1From(r, t1, n) == t1 + Expm1(r, t1, n + 1)

\* The Taylor terms r^n/n! of e^r in Q30, from the n-th to the 13th, given
\* the (n-1)-th term t; 0 <= r < ln 2 (Q30)
Expm1(r, t, n) ==
  IF n > 13 \/ t = 0 THEN 0
  ELSE Expm1From(r, (MulQ30(t, r) + n \div 2) \div n, n)

\* ln 2 in Q30
Ln2Q30 == 744261118

\* the float nearest to e^(r / 2^30) * 2^(I + j), 0 <= r < ln 2 (Q30)
ExpReduced(I, j, r) ==
  Last(<< r, RoundPack(FALSE, P30 + r + Expm1(r, r, 2), I + j - 30, TRUE) >>)

\* u / 2^28 = j0 * ln 2 + r0 / 2^30 with r0 brought into [0, ln 2)
ExpSplit(I, j0, r0) ==
  IF r0 < 0 THEN ExpReduced(I, j0 - 1, r0 + Ln2Q30) ELSE ExpReduced(I, j0, r0)

\* the quotient j0 of u by ln 2 in Q28
ExpQuot(I, u, j0) ==
  ExpSplit(I, j0, 4 * (u - j0 * (Ln2Q30 \div 4)) - j0 * (Ln2Q30 % 4))

\* the float nearest to e^(u / 2^28) * 2^I, u a signed Q28 number
ExpCore(I, u) == Last(<< u, ExpQuot(I, u, u \div (Ln2Q30 \div 4)) >>)

\* y * E = I + F / 2^30 and y * ln m = +-p / 2^(s + 30), p = hi * 2^30 + lo
PowExp(I, F, neg, p, s) ==
  Last(<< I, F, p,
          ExpCore(I, (MulQ30(F, Ln2Q30) + 2) \div 4
                     + Signed(neg, p.hi * 2^(28 - s) + p.lo \div 2^(s + 2))) >>)

\* |y * E| = Ia + Fa / 2^30, negative iff yEneg
PowFrac(y, lnm, lnneg, s, yEneg, Ia, Fa) ==
  PowExp(IF yEneg THEN (IF Fa > 0 THEN -Ia - 1 ELSE -Ia) ELSE Ia,
         IF yEneg /\ Fa > 0 THEN P30 - Fa ELSE Fa,
         lnneg # (y < 0), MulHL(Man(y), lnm), s)

\* |y| = Man(y) * 2^-s and T = Man(y) * |E|
PowSplit(y, E, lnm, lnneg, s, T) ==
  PowFrac(y, lnm, lnneg, s, (E < 0) # (y < 0), T \div 2^s, (T % 2^s) * 2^(30 - s))

\* x = m * 2^E with |ln m| = lnm / 2^30, lnneg when m < 1
PowLog(y, E, lnm, lnneg) ==
  Last(<< lnm, PowSplit(y, E, lnm, lnneg, 150 - Ex(y), Man(y) * Abs(E)) >>)

\* pow(x, y) for a finite y with 2^-6 <= |y| < 2^22 and |exponent of x| < 64:
\* x^y = 2^(y*E) * e^(y * ln m), where x = m * 2^E with m in [0.707, 1.414),
\* that is, with the significand of x halved when it is at least sqrt(2)
FPow(x, y) ==
  IF IsNaN(x) \/ IsNaN(y) \/ x < 0 THEN NaN
  ELSE IF Ex(x) = 0 THEN 0
  ELSE IF Man(x) >= 11863283
       THEN PowLog(y, Ex(x) - 126, LnMant(Man(x), P24), TRUE)
       ELSE PowLog(y, Ex(x) - 127, LnMant(Man(x), P23), FALSE)

\* exp(x) for |x| < 8: |x| = Man(x) * 2^-s / 2^28 with s = 122 - Ex(x); for
\* x <= -104, where e^x is below half the smallest float, and for x >= 89,
\* where e^x is above the largest float
FExp(x) ==
  IF IsNaN(x) THEN NaN
  ELSE IF FLe(x, FNeg(FromInt(104))) THEN 0
  ELSE IF FGe(x, FromInt(89)) THEN INF
  ELSE IF Ex(x) = 0 THEN FromInt(1)
  ELSE IF Ex(x) >= 122 THEN ExpCore(0, Signed(x < 0, Man(x) * 2^(Ex(x) - 122)))
  ELSE IF Ex(x) >= 92
       THEN ExpCore(0, Signed(x < 0, (Man(x) + 2^(121 - Ex(x))) \div 2^(122 - Ex(x))))
  ELSE ExpCore(0, 0)

-----------------------------------------------------------------------------
(* cv::Mat values: rows, cols, channels and the elements in row-major order; *)
(* an element is a tuple of `channels` values (bytes or floats)              *)

Mat(r, c, ch, d) == [rows |-> r, cols |-> c, channels |-> ch, data |-> d]
\* the sequence F(1), ..., F(n), computed once
Tabulate(n, F(_)) == SubSeq([i \in 1..n |-> F(i)], 1, n)
EmptyMat == Mat(0, 0, 1, <<>>)
IsEmpty(m) == m.rows * m.cols = 0
Total(m) == m.rows * m.cols

\* the byte at offset o of the buffer of m; a byte past the end of the buffer
\* has the value garbage
ByteAt(m, o, garbage) ==
  IF o < Total(m) * m.channels
  THEN m.data[(o \div m.channels) + 1][(o % m.channels) + 1]
  ELSE garbage

\* bgrImage.at<cv::Vec3b>(y, x): the three bytes at data + y * step + 3 * x
AtVec3b(m, y, x, garbage) ==
  [c \in 1..3 |-> ByteAt(m, y * m.cols * m.channels + 3 * x + (c - 1), garbage)]

-----------------------------------------------------------------------------
(* ColorConverter *)

F0 == 0
F1 == FromInt(1)
F255 == FromInt(255)
F100 == FromInt(100)
F128 == FromInt(128)
F16 == FromInt(16)
F116 == FromInt(116)
F500 == FromInt(500)
F200 == FromInt(200)
GammaThreshold == Ratio(4045, 100000)
GammaOffset == Ratio(55, 1000)
GammaScale == Ratio(1055, 1000)
GammaSlope == Ratio(1292, 100)
GammaPower == Ratio(24, 10)
GammaInvThreshold == Ratio(31308, 10000000)
GammaInvPower == FDiv(F1, GammaPower)
xn == Ratio(95047, 100000)
yn == F1
zn == Ratio(108883, 100000)
delta == FDiv(FromInt(6), FromInt(29))
\* pow(delta, 3) is a double; a float exceeds it iff it exceeds the float
\* just below it, which is delta * delta * delta rounded in binary32
DeltaCubed == FMul(FMul(delta, delta), delta)
ThreeDeltaSq == FMul(FMul(FromInt(3), delta), delta)
FourOver29 == FDiv(FromInt(4), FromInt(29))
OneThird == FDiv(F1, FromInt(3))

RGBToXYZMatrix ==
  << <<Ratio(4124564, 10000000), Ratio(3575761, 10000000), Ratio(1804375, 10000000)>>,
     <<Ratio(2126729, 10000000), Ratio(7151522, 10000000), Ratio(721750, 10000000)>>,
     <<Ratio(193339, 10000000), Ratio(1191920, 10000000), Ratio(9503041, 10000000)>> >>
XYZToRGBMatrix ==
  << <<Ratio(32404542, 10000000), -Ratio(15371385, 10000000), -Ratio(4985314, 10000000)>>,
     <<-Ratio(9692660, 10000000), Ratio(18760108, 10000000), Ratio(415560, 10000000)>>,
     <<Ratio(556434, 10000000), -Ratio(2040259, 10000000), Ratio(10572252, 10000000)>> >>

\* u * row[1] + v * row[2] + w * row[3], evaluated left to right
Dot(u, v, w, row) ==
  FAdd(FAdd(FMul(u, row[1]), FMul(v, row[2])), FMul(w, row[3]))

\* the linear branch of the sRGB curve taken for every value
LinearizeNoPower(c) == FDiv(c, GammaSlope)

\* (c > 0.04045f) ? pow((c + 0.055f) / 1.055f, 2.4f) : (c / 12.92f)
Linearize(c) ==
  IF FGt(c, GammaThreshold)
  THEN FPow(FDiv(FAdd(c, GammaOffset), GammaScale), GammaPower)
  ELSE FDiv(c, GammaSlope)

\* the matrix product and the division by the white point, on the linear
\* values
LinearToXYZ(r, g, b) ==
  Last(<< r, g, b,
          << FDiv(Dot(r, g, b, RGBToXYZMatrix[1]), xn),
             FDiv(Dot(r, g, b, RGBToXYZMatrix[2]), yn),
             FDiv(Dot(r, g, b, RGBToXYZMatrix[3]), zn) >> >>)

RGB2XYZ(r, g, b) == LinearToXYZ(Linearize(r), Linearize(g), Linearize(b))

\* the lambda f of XYZ2Lab
XYZ2Lab_f(t) ==
  IF FGt(t, DeltaCubed) THEN FPow(t, OneThird)
  ELSE FAdd(FDiv(t, ThreeDeltaSq), FourOver29)

\* L, a and b from fx, fy and fz; L is stored as L * 255 / 100 and a, b + 128
LabOf(fx, fy, fz) ==
  Last(<< fx, fy, fz,
          << FDiv(FMul(FSub(FMul(F116, fy), F16), F255), F100),
             FAdd(FMul(F500, FSub(fx, fy)), F128),
             FAdd(FMul(F200, FSub(fy, fz)), F128) >> >>)

XYZ2Lab(x, y, z) ==
  LabOf(XYZ2Lab_f(FDiv(x, xn)), XYZ2Lab_f(FDiv(y, yn)), XYZ2Lab_f(FDiv(z, zn)))

\* the lambda f_inv of Lab2XYZ
Lab2XYZ_f_inv(t) ==
  IF FGt(t, delta) THEN FMul(FMul(t, t), t)
  ELSE FMul(ThreeDeltaSq, FSub(t, FourOver29))

\* x, y and z from fy and the a and b offsets
XYZOf(fy, a, b) ==
  Last(<< fy, a, b,
          << FMul(xn, Lab2XYZ_f_inv(FAdd(fy, FDiv(a, F500)))),
             FMul(yn, Lab2XYZ_f_inv(fy)),
             FMul(zn, Lab2XYZ_f_inv(FSub(fy, FDiv(b, F200)))) >> >>)

Lab2XYZ(l, a, b) ==
  XYZOf(FDiv(FAdd(FDiv(FMul(l, F100), F255), F16), F116), FSub(a, F128), FSub(b, F128))

\* (c > 0.0031308f) ? (1.055f * pow(c, 1.0f / 2.4f) - 0.055f) : (12.92f * c)
GammaEncode(c) ==
  IF FGt(c, GammaInvThreshold)
  THEN FSub(FMul(GammaScale, FPow(c, GammaInvPower)), GammaOffset)
  ELSE FMul(GammaSlope, c)

\* cv::max(0.0f, cv::min(1.0f, c))
Clamp01(c) == StdMax(F0, StdMin(F1, c))

\* the matrix product, the gamma correction and the clamp, on the x, y, z
\* multiplied by the white point
XYZToRGB(x, y, z) ==
  Last(<< x, y, z,
          << Clamp01(GammaEncode(Dot(x, y, z, XYZToRGBMatrix[1]))),
             Clamp01(GammaEncode(Dot(x, y, z, XYZToRGBMatrix[2]))),
             Clamp01(GammaEncode(Dot(x, y, z, XYZToRGBMatrix[3]))) >> >>)

XYZ2RGB(x, y, z) == XYZToRGB(FMul(x, xn), FMul(y, yn), FMul(z, zn))

\* ivalue clamped to 0..255
ClampByte(ivalue) == IF ivalue < 0 THEN 0 ELSE IF ivalue > 255 THEN 255 ELSE ivalue

saturate_cast(value) == ClampByte(Trunc(value))

\* the loop body of BGR2Lab: the pixel is stored as B, G, R
LabOfXYZ(xyz) == Last(<< xyz, XYZ2Lab(xyz[1], xyz[2], xyz[3]) >>)
PixelToLab(bgr) ==
  LabOfXYZ(RGB2XYZ(FDiv(FromInt(bgr[3]), F255), FDiv(FromInt(bgr[2]), F255),
                   FDiv(FromInt(bgr[1]), F255)))

\* the loop body of Lab2BGR
BGROfRGB(rgb) ==
  Last(<< rgb,
          << saturate_cast(FMul(rgb[3], F255)), saturate_cast(FMul(rgb[2], F255)),
             saturate_cast(FMul(rgb[1], F255)) >> >>)
RGBOfXYZ(xyz) == Last(<< xyz, XYZ2RGB(xyz[1], xyz[2], xyz[3]) >>)
PixelToBGR(lab) == BGROfRGB(RGBOfXYZ(Lab2XYZ(lab[1], lab[2], lab[3])))

\* the pixel at index i (from 1, row-major) of bgrImage as at<cv::Vec3b> reads it
PixelAt(bgrImage, i, garbage) ==
  AtVec3b(bgrImage, (i - 1) \div bgrImage.cols, (i - 1) % bgrImage.cols, garbage)

\* BGR2Lab always builds a three-channel float image of the input's size and
\* reads the input through at<cv::Vec3b>, whatever its channel count
BGR2Lab(bgrImage, garbage) ==
  Mat(bgrImage.rows, bgrImage.cols, 3,
      Tabulate(Total(bgrImage), LAMBDA i : PixelToLab(PixelAt(bgrImage, i, garbage))))

Lab2BGR(labImage) ==
  Mat(labImage.rows, labImage.cols, 3,
      Tabulate(Total(labImage), LAMBDA i : PixelToBGR(labImage.data[i])))

-----------------------------------------------------------------------------
(* ShadowHighlightsFilter: the constructor and the values the setters store *)

F2 == FromInt(2)
F8 == FromInt(8)
F20 == FromInt(20)
F50 == FromInt(50)
F01 == Ratio(1, 10)
F03 == Ratio(3, 10)
F05 == Ratio(5, 10)
F07 == Ratio(7, 10)
F09 == Ratio(9, 10)

\* the constructor storing shadows without clamping it
ShadowHighlightsFilterRaw(shadows, highlights, width, radius) ==
  [shadowAmount |-> shadows,
   highlightAmount |-> StdMax(F0, StdMin(F1, highlights)),
   tonalWidth |-> StdMax(F0, StdMin(F1, width)),
   blurRadius |-> StdMax(F0, StdMin(F50, radius))]

ShadowHighlightsFilter(shadows, highlights, width, radius) ==
  [shadowAmount |-> StdMax(F0, StdMin(F1, shadows)),
   highlightAmount |-> StdMax(F0, StdMin(F1, highlights)),
   tonalWidth |-> StdMax(F0, StdMin(F1, width)),
   blurRadius |-> StdMax(F0, StdMin(F50, radius))]

\* setShadowAmount without the lower clamp
ShadowAmountSetNoFloor(amount) == StdMin(F1, amount)

ShadowAmountSet(amount) == StdMax(F0, StdMin(F1, amount))
HighlightAmountSet(amount) == StdMax(F0, StdMin(F1, amount))
TonalWidthSet(width) == StdMax(F0, StdMin(F1, width))
BlurRadiusSet(radius) == StdMax(F0, StdMin(F50, radius))

-----------------------------------------------------------------------------
(* The arguments and images the calls are made with *)

\* float arguments: NaN, -10, 0.5, 5 and 60
Args == {NaN, FNeg(FromInt(10)), F05, FromInt(5), FromInt(60)}

\* every filter the constructor and the setters can produce from Args
Filters ==
  LET made == {ShadowHighlightsFilter(a, a, a, a) : a \in Args}
  IN [shadowAmount : {f.shadowAmount : f \in made} \cup {ShadowAmountSet(a) : a \in Args},
      highlightAmount : {f.highlightAmount : f \in made}
                          \cup {HighlightAmountSet(a) : a \in Args},
      tonalWidth : {f.tonalWidth : f \in made} \cup {TonalWidthSet(a) : a \in Args},
      blurRadius : {f.blurRadius : f \in made} \cup {BlurRadiusSet(a) : a \in Args}]

\* BGR pixels: a red, dark gray, light gray, black, mid-gray and white
Palette ==
  << <<0, 2, 240>>, <<30, 30, 30>>, <<180, 180, 180>>, <<0, 0, 0>>,
     <<128, 128, 128>>, <<255, 255, 255>> >>

\* the widest one-row image
MaxCols == 2

\* the one-row image of the first cols palette colours, cyclically
RowImage(cols) ==
  Mat(1, cols, 3, Tabulate(cols, LAMBDA i : Palette[((i - 1) % Len(Palette)) + 1]))

\* the 2 x 2 image [[black, white], [mid-gray, mid-gray]]
ScenarioImage == Mat(2, 2, 3, << Palette[4], Palette[6], Palette[5], Palette[5] >>)
\* a one-pixel 8-bit grayscale image and a one-pixel BGRA image
GrayImage == Mat(1, 1, 1, << <<128>> >>)
BGRAImage == Mat(1, 1, 4, << <<0, 2, 240, 255>> >>)

ColourImages == {RowImage(cols) : cols \in 1..MaxCols} \cup {ScenarioImage}
Images == {EmptyMat, GrayImage, BGRAImage} \cup ColourImages

\* at<cv::Vec3b> reads past the end of the buffer of a non-empty image with
\* fewer than three bytes a pixel; the bytes it finds there are arbitrary
ReadsPastEnd(m) ==
  /\ ~IsEmpty(m)
  /\ (m.rows - 1) * m.cols * m.channels + 3 * m.cols > Total(m) * m.channels
GarbageBytes == {0, 255}
Garbages(m) == IF ReadsPastEnd(m) THEN GarbageBytes ELSE {0}

-----------------------------------------------------------------------------
(* LabImageProcessor *)

\* the row and the column of pixel i (from 1) of m
RowOfPixel(m, i) == (i - 1) \div m.cols
ColOfPixel(m, i) == (i - 1) % m.cols

\* a plane laid out as one row
PlaneAsRow(m, d) == Mat(1, m.rows * m.cols, 1, d)

\* a single-channel float image of the size of m
Plane(m, d) == Mat(m.rows, m.cols, 1, d)

\* splitLab throws std::invalid_argument unless the image has three channels
splitLabThrows(labImage) == labImage.channels # 3

\* splitLab returning the a and b planes in the other order
splitLabSwapped(labImage) ==
  << Plane(labImage, Tabulate(Total(labImage), LAMBDA i : labImage.data[i][1])),
     Plane(labImage, Tabulate(Total(labImage), LAMBDA i : labImage.data[i][3])),
     Plane(labImage, Tabulate(Total(labImage), LAMBDA i : labImage.data[i][2])) >>

splitLab(labImage) ==
  LET Channel(c) ==
        Plane(labImage, Tabulate(Total(labImage), LAMBDA i : labImage.data[i][c]))
  IN << Channel(1), Channel(2), Channel(3) >>

\* mergeLab checks the number of planes only, not their sizes
mergeLabThrows(channels) == Len(channels) # 3

\* plane.at<float>(y, x): the float at data + y * step + 4 * x; a float past
\* the end of the buffer has the value garbage
FloatAt(plane, y, x, garbage) ==
  IF y * plane.cols + x < Total(plane)
  THEN plane.data[y * plane.cols + x + 1]
  ELSE garbage

\* the pixel (y, x) of the merged image
Merged(channels, y, x, garbage) ==
  << FloatAt(channels[1], y, x, garbage), FloatAt(channels[2], y, x, garbage),
     FloatAt(channels[3], y, x, garbage) >>

\* mergeLab taking the b plane for the a channel too
mergeLabRepeated(channels, garbage) ==
  Mat(channels[1].rows, channels[1].cols, 3,
      Tabulate(Total(channels[1]),
               LAMBDA i : Merged(<< channels[1], channels[3], channels[3] >>,
                                 RowOfPixel(channels[1], i),
                                 ColOfPixel(channels[1], i), garbage)))

\* the merged image has the size of channels[0]
mergeLab(channels, garbage) ==
  Mat(channels[1].rows, channels[1].cols, 3,
      Tabulate(Total(channels[1]),
               LAMBDA i : Merged(channels, RowOfPixel(channels[1], i),
                                 ColOfPixel(channels[1], i), garbage)))

-----------------------------------------------------------------------------
(* ShadowHighlightsFilter: the private helpers.  `this` is the record of the *)
(* four fields.                                                              *)

\* acc + values[lo] + ... + values[hi], added one by one in this order
RECURSIVE Accumulate(_, _, _, _)
Accumulate(values, lo, hi, acc) ==
  Last(<< acc,
          IF lo > hi THEN acc
          ELSE IF lo = hi THEN FAdd(acc, values[lo])
          ELSE Accumulate(values, ((lo + hi) \div 2) + 1, hi,
                          Accumulate(values, lo, (lo + hi) \div 2, acc)) >>)

\* the larger of two floats, neither of them NaN
Larger(left, right) == IF left >= right THEN left ELSE right

\* the largest of values[lo..hi] (cv::minMaxLoc's maxVal), none of them NaN
RECURSIVE MaxOf(_, _, _)
MaxOf(values, lo, hi) ==
  IF lo = hi THEN values[lo]
  ELSE Larger(MaxOf(values, lo, (lo + hi) \div 2),
              MaxOf(values, ((lo + hi) \div 2) + 1, hi))

\* every element of m multiplied by alpha
Scale(m, alpha) ==
  Last(<< alpha, Plane(m, Tabulate(Total(m), LAMBDA i : FMul(m.data[i], alpha))) >>)

\* cv::Mat /= s is convertTo(m, -1, 1. / s): every element is multiplied by
\* the float nearest to 1 / s
DivideBy(m, s) == Scale(m, FDiv(F1, s))

normalizeLuminance(luminance) ==
  Plane(luminance, Tabulate(Total(luminance), LAMBDA i : FDiv(luminance.data[i], F255)))

denormalizeLuminance(normalizedLuminance) ==
  Plane(normalizedLuminance,
        Tabulate(Total(normalizedLuminance),
                 LAMBDA i : FMul(normalizedLuminance.data[i], F255)))

\* the shadow correction applied in full whatever the shadow amount
ShadowCorrectionFull(this, lum, shadow) == FMul(FMul(shadow, FSub(F1, lum)), F07)

\* the shadow correction applied whatever the mask
ShadowCorrectionUnmasked(this, lum, shadow) ==
  FMul(FMul(this.shadowAmount, FSub(F1, lum)), F07)

\* shadowAmount * shadow * (1.0f - lum) * 0.7f
ShadowCorrection(this, lum, shadow) ==
  FMul(FMul(FMul(this.shadowAmount, shadow), FSub(F1, lum)), F07)

\* the highlight correction without its factor 0.7
HighlightCorrectionUndamped(this, lum, highlight) ==
  FMul(FMul(this.highlightAmount, highlight), lum)

\* highlightAmount * highlight * lum * 0.7f
HighlightCorrection(this, lum, highlight) ==
  FMul(FMul(FMul(this.highlightAmount, highlight), lum), F07)

\* the clamp with lum as its upper bound
ClampCorrectedBelow(lum, corrected) ==
  StdMax(FMul(lum, F03), StdMin(lum, corrected))

\* std::max(minVal, std::min(maxVal, corrected)) with minVal = lum * 0.3f and
\* maxVal = 1.0f - (1.0f - lum) * 0.3f
ClampCorrected(lum, corrected) ==
  Last(<< corrected,
          StdMax(FMul(lum, F03),
                 StdMin(FSub(F1, FMul(FSub(F1, lum), F03)), corrected)) >>)

\* the body of applyAdvancedCorrection's loop
CorrectedValue(this, lum, shadow, highlight) ==
  ClampCorrected(lum, FSub(FAdd(lum, ShadowCorrection(this, lum, shadow)),
                           HighlightCorrection(this, lum, highlight)))

applyAdvancedCorrection(this, luminance, shadowMask, highlightMask) ==
  Plane(luminance,
        Tabulate(Total(luminance),
                 LAMBDA i : CorrectedValue(this, luminance.data[i], shadowMask.data[i],
                                           highlightMask.data[i])))

\* the L plane of labChannels replaced
WithLuminance(labChannels, denormalizedLuminance) ==
  << denormalizedLuminance, labChannels[2], labChannels[3] >>

convertBackToBGR(correctedLuminance, labChannels) ==
  Lab2BGR(mergeLab(WithLuminance(labChannels, denormalizeLuminance(correctedLuminance)),
                   F0))

\* n | 1
OrOne(n) == IF n % 2 = 0 THEN n + 1 ELSE n
\* std::max(3, (int)(radius * 2 + 1) | 1)
KernelSize(radius) ==
  IF 3 < OrOne(Trunc(FAdd(FMul(radius, F2), F1)))
  THEN OrOne(Trunc(FAdd(FMul(radius, F2), F1)))
  ELSE 3

Square(v) == FMul(v, v)

\* exp(-(dx * dx + dy * dy) / (2 * sigma * sigma)) at index i (from 1) of the
\* kernel
KernelValue(size, twoSigmaSq, i) ==
  FExp(FDiv(FNeg(FAdd(Square(FromInt(((i - 1) % size) - size \div 2)),
                      Square(FromInt(((i - 1) \div size) - size \div 2)))),
            twoSigmaSq))

\* the kernel divided by the number of its entries
KernelOverCount(size, values) ==
  DivideBy(Mat(size, size, 1, values), FromInt(size * size))

\* kernel /= sum
KernelOver(size, values) ==
  Last(<< values, DivideBy(Mat(size, size, 1, values),
                           Accumulate(values, 1, size * size, F0)) >>)

KernelOf(size, twoSigmaSq) ==
  Last(<< twoSigmaSq,
          KernelOver(size, Tabulate(size * size,
                                    LAMBDA i : KernelValue(size, twoSigmaSq, i))) >>)

createGaussianKernel(size, sigma) == KernelOf(size, FMul(FMul(F2, sigma), sigma))

\* the number of passes with the limits 8 and 20 taken into the next case
IterationsStrict(radius) ==
  IF FLt(radius, F8) THEN 1 ELSE IF FLt(radius, F20) THEN 2 ELSE 3

\* the passes of applyFastGaussianBlur and the radius of each
Iterations(radius) ==
  IF FLe(radius, F8) THEN 1 ELSE IF FLe(radius, F20) THEN 2 ELSE 3
IterRadius(radius) ==
  IF FLe(radius, F8) THEN radius
  ELSE IF FLe(radius, F20) THEN FDiv(radius, F2)
  ELSE FDiv(radius, FromInt(3))

\* the kernels createGaussianKernel builds for the filters above, built once
\* the radii applyGaussianBlur and applyFastGaussianBlur are called with
\* directly
BlurRadii ==
  {Ratio(1, 20), F05, F1, Ratio(13, 10), FromInt(5), F8}
FastBlurRadii ==
  {F05, F1, FromInt(5), F8, FromInt(9), F20, FromInt(21), FromInt(30)}

\* the kernels createGaussianKernel builds for the filters above and for the
\* direct calls, built once
GaussianKernels ==
  [sigma \in {IterRadius(StdMin(f.blurRadius, F20)) :
                f \in {g \in Filters : FGe(StdMin(g.blurRadius, F20), F1)}}
             \cup {radius \in BlurRadii : FGe(radius, F01)}
             \cup {IterRadius(radius) : radius \in {r \in FastBlurRadii : FGe(r, F1)}} |->
     createGaussianKernel(KernelSize(sigma), sigma)]

\* the row and the column of the pixel at index i (from 1)
RowOf(input, i) == (i - 1) \div input.cols
ColOf(input, i) == (i - 1) % input.cols

\* no sample of the kernel taken as in bounds
TapsNone(input, kernelRadius, i) == << >>

\* the source pixels of pixel i inside the image, in the order of the ky, kx
\* loops
Taps(input, kernelRadius, i) ==
  SelectSeq(Tabulate(Total(input), LAMBDA j : j),
            LAMBDA j : /\ Abs(RowOf(input, j) - RowOf(input, i)) <= kernelRadius
                       /\ Abs(ColOf(input, j) - ColOf(input, i)) <= kernelRadius)

\* kernel.at<float>(ky + kernelRadius, kx + kernelRadius) for the source
\* pixel j of pixel i
Weight(input, kernel, i, j) ==
  kernel.data[(RowOf(input, j) - RowOf(input, i) + kernel.rows \div 2) * kernel.cols
              + (ColOf(input, j) - ColOf(input, i) + kernel.rows \div 2) + 1]

\* the sum stored without the division by the sum of the weights
ConvolvedUnnormalized(pixel, sum, weightSum) == sum

\* the value stored for a pixel with the sums of its loop
Convolved(pixel, sum, weightSum) ==
  Last(<< sum, weightSum, IF FGt(weightSum, F0) THEN FDiv(sum, weightSum) ELSE pixel >>)

\* the body of applyConvolution's loop for pixel i with source pixels taps
\* weightSum after the ky, kx loops of pixel i
WeightSumAt(input, kernel, i, taps) ==
  Accumulate(Tabulate(Len(taps), LAMBDA k : Weight(input, kernel, i, taps[k])),
             1, Len(taps), F0)

ConvolveAt(input, kernel, i, taps) ==
  Last(<< taps,
          Convolved(input.data[i],
                    Accumulate(Tabulate(Len(taps),
                                        LAMBDA k : FMul(input.data[taps[k]],
                                                        Weight(input, kernel, i, taps[k]))),
                               1, Len(taps), F0),
                    WeightSumAt(input, kernel, i, taps)) >>)

\* weightSum of every pixel, which decides between sum / weightSum and the
\* input pixel
WeightSums(input, kernel) ==
  Tabulate(Total(input),
           LAMBDA i : WeightSumAt(input, kernel, i, Taps(input, kernel.rows \div 2, i)))

applyConvolution(input, kernel) ==
  Plane(input,
        Tabulate(Total(input),
                 LAMBDA i : ConvolveAt(input, kernel, i,
                                       Taps(input, kernel.rows \div 2, i))))

applyGaussianBlur(input, radius) ==
  IF FLt(radius, F01) THEN input
  ELSE applyConvolution(input, GaussianKernels[radius])

\* for (i = 0; i < iterations; i++) result = applyGaussianBlur(result, iterRadius)
RECURSIVE BlurPasses(_, _, _)
BlurPasses(result, iterRadius, iterations) ==
  Last(<< result,
          IF iterations = 0 THEN result
          ELSE BlurPasses(applyGaussianBlur(result, iterRadius), iterRadius,
                          iterations - 1) >>)

\* a single pass whatever the radius
applyFastGaussianBlurOnce(input, radius) ==
  IF FLt(radius, F1) THEN input ELSE applyGaussianBlur(input, IterRadius(radius))

applyFastGaussianBlur(input, radius) ==
  IF FLt(radius, F1) THEN input
  ELSE BlurPasses(input, IterRadius(radius), Iterations(radius))

\* the passes of the loop of applyFastGaussianBlur, in order: the radius, the
\* input and the output of each call of applyGaussianBlur
RECURSIVE BlurTrace(_, _, _)
BlurTrace(result, iterRadius, iterations) ==
  IF iterations = 0 THEN << >>
  ELSE << [radius |-> iterRadius, input |-> result,
           output |-> applyGaussianBlur(result, iterRadius)] >>
         \o BlurTrace(applyGaussianBlur(result, iterRadius), iterRadius, iterations - 1)

FastBlurTrace(input, radius) ==
  IF FLt(radius, F1) THEN << >>
  ELSE BlurTrace(input, IterRadius(radius), Iterations(radius))

\* if (maxVal > 0) smoothMask /= maxVal
OverMax(smoothMask, maxVal) ==
  Last(<< maxVal, IF maxVal > 0 THEN DivideBy(smoothMask, maxVal) ELSE smoothMask >>)

\* cv::minMaxLoc and the division by maxVal
MaxNormalized(smoothMask) ==
  Last(<< smoothMask,
          OverMax(smoothMask, MaxOf(smoothMask.data, 1, Total(smoothMask))) >>)

\* the tail of both mask builders: blur when blurRadius > 0.1, then divide by
\* the maximum when it is positive
BlurAndNormalize(this, smoothMask) ==
  IF FGt(this.blurRadius, F01)
  THEN MaxNormalized(applyFastGaussianBlur(smoothMask, StdMin(this.blurRadius, F20)))
  ELSE MaxNormalized(smoothMask)

\* the shadow ramp rising with the luminance
OneMinusSquareRising(t) == FMul(t, t)

\* 1.0f - t * t
OneMinusSquare(t) == FSub(F1, FMul(t, t))

\* the shadow ramp continued above the threshold
ShadowMaskValueNoCeiling(lum, shadowThreshold) ==
  IF FLe(lum, FMul(shadowThreshold, F03)) THEN F1
  ELSE OneMinusSquare(FDiv(FSub(lum, FMul(shadowThreshold, F03)),
                           FMul(shadowThreshold, F07)))

\* the falloff without the plateau below 0.3 * threshold
ShadowMaskValueNoPlateau(lum, shadowThreshold) ==
  IF FLe(lum, shadowThreshold)
  THEN OneMinusSquare(FDiv(FSub(lum, FMul(shadowThreshold, F03)),
                           FMul(shadowThreshold, F07)))
  ELSE F0

ShadowMaskValue(lum, shadowThreshold) ==
  IF FLe(lum, FMul(shadowThreshold, F03)) THEN F1
  ELSE IF FLe(lum, shadowThreshold)
       THEN OneMinusSquare(FDiv(FSub(lum, FMul(shadowThreshold, F03)),
                                FMul(shadowThreshold, F07)))
       ELSE F0

\* the divisors of the divisions executed by the loop of
\* createAdvancedShadowMask: shadowThreshold * 0.7f in the second branch
ShadowDivisors(luminance, shadowThreshold) ==
  {FMul(shadowThreshold, F07) :
     i \in {j \in 1..Total(luminance) :
              /\ ~FLe(luminance.data[j], FMul(shadowThreshold, F03))
              /\ FLe(luminance.data[j], shadowThreshold)}}

\* the mask before the blur
ShadowSmoothMask(luminance, shadowThreshold) ==
  Last(<< shadowThreshold,
          Plane(luminance,
                Tabulate(Total(luminance),
                         LAMBDA i : ShadowMaskValue(luminance.data[i],
                                                    shadowThreshold))) >>)

createAdvancedShadowMask(this, luminance) ==
  BlurAndNormalize(this, ShadowSmoothMask(luminance, FMul(F05, this.tonalWidth)))

\* the ramp of the highlight mask continued below its start
HighlightMaskValueNoFloor(lum, highlightThreshold) ==
  IF FGe(lum, highlightThreshold) THEN F1
  ELSE FDiv(FSub(lum, FMul(highlightThreshold, F09)), FMul(highlightThreshold, F01))

HighlightMaskValue(lum, highlightThreshold) ==
  IF FGe(lum, highlightThreshold) THEN F1
  ELSE IF FGe(lum, FMul(highlightThreshold, F09))
       THEN FDiv(FSub(lum, FMul(highlightThreshold, F09)),
                 FMul(highlightThreshold, F01))
       ELSE F0

\* the divisors of the divisions executed by the loop of
\* createAdvancedHighlightMask: highlightThreshold * 0.1f in the second branch
HighlightDivisors(luminance, highlightThreshold) ==
  {FMul(highlightThreshold, F01) :
     i \in {j \in 1..Total(luminance) :
              /\ ~FGe(luminance.data[j], highlightThreshold)
              /\ FGe(luminance.data[j], FMul(highlightThreshold, F09))}}

\* the mask before the blur
HighlightSmoothMask(luminance, highlightThreshold) ==
  Last(<< highlightThreshold,
          Plane(luminance,
                Tabulate(Total(luminance),
                         LAMBDA i : HighlightMaskValue(luminance.data[i],
                                                       highlightThreshold))) >>)

createAdvancedHighlightMask(this, luminance) ==
  BlurAndNormalize(this,
                   HighlightSmoothMask(luminance,
                                       FSub(F1, FMul(F05, this.tonalWidth))))

-----------------------------------------------------------------------------
(* ShadowHighlightsFilter::apply *)

AllStages ==
  << "BGR2Lab", "splitLab", "normalizeLuminance", "createAdvancedShadowMask",
     "createAdvancedHighlightMask", "applyAdvancedCorrection",
     "denormalizeLuminance", "mergeLab", "Lab2BGR" >>

\* the locals of apply a caller of the model can look at
NoFrame ==
  [labImage |-> EmptyMat, labChannels |-> << >>, luminance |-> EmptyMat,
   luminanceFloat |-> EmptyMat, shadowMask |-> EmptyMat,
   highlightMask |-> EmptyMat, correctedLuminance |-> EmptyMat,
   denormalizedLuminance |-> EmptyMat, merged |-> << >>]

\* the call ends with the exception, after the stages in done were entered
Thrown(exception, done) ==
  [status |-> exception, stages |-> done, frame |-> NoFrame, result |-> EmptyMat]

\* apply once the corrected luminance is known: convertBackToBGR and return
Corrected(labImage, labChannels, luminanceFloat, shadowMask, highlightMask, correctedLuminance) ==
  Last(<< correctedLuminance,
          [status |-> "ok", stages |-> AllStages,
           frame |-> [labImage |-> labImage,
                      labChannels |-> labChannels,
                      luminance |-> labChannels[1],
                      luminanceFloat |-> luminanceFloat,
                      shadowMask |-> shadowMask,
                      highlightMask |-> highlightMask,
                      correctedLuminance |-> correctedLuminance,
                      denormalizedLuminance |-> denormalizeLuminance(correctedLuminance),
                      merged |-> WithLuminance(labChannels,
                                               denormalizeLuminance(correctedLuminance))],
           result |-> convertBackToBGR(correctedLuminance, labChannels)] >>)

\* apply once both masks are built
Masked(this, labImage, labChannels, luminanceFloat, shadowMask, highlightMask) ==
  Last(<< shadowMask, highlightMask,
          Corrected(labImage, labChannels, luminanceFloat, shadowMask, highlightMask,
                    applyAdvancedCorrection(this, luminanceFloat, shadowMask,
                                            highlightMask)) >>)

\* apply once the luminance is normalized
Normalized(this, labImage, labChannels, luminanceFloat) ==
  Last(<< luminanceFloat,
          Masked(this, labImage, labChannels, luminanceFloat,
                 createAdvancedShadowMask(this, luminanceFloat),
                 createAdvancedHighlightMask(this, luminanceFloat)) >>)

\* apply once the Lab image is split; labChannels[0] is the luminance
Split(this, labImage, labChannels) ==
  Last(<< labChannels,
          Normalized(this, labImage, labChannels,
                     normalizeLuminance(labChannels[1])) >>)

\* apply once the image is converted to Lab
Converted(this, labImage) ==
  Last(<< labImage,
          IF splitLabThrows(labImage)
          THEN Thrown("InvalidInput", << "BGR2Lab", "splitLab" >>)
          ELSE Split(this, labImage, splitLab(labImage)) >>)

\* apply from the conversion to Lab on
Pipeline(this, inputImage, garbage) == Converted(this, BGR2Lab(inputImage, garbage))

\* apply converting the image before it looks at its size
ApplyRunLateCheck(this, inputImage, garbage) ==
  IF IsEmpty(inputImage) THEN Thrown("InvalidInput", << "BGR2Lab" >>)
  ELSE Pipeline(this, inputImage, garbage)

ApplyRun(this, inputImage, garbage) ==
  IF IsEmpty(inputImage) THEN Thrown("InvalidInput", << >>)
  ELSE Pipeline(this, inputImage, garbage)

\* ApplyRun on the filters and images above, computed once
ApplyTable ==
  [call \in UNION {{<< this, m, g >> : this \in Filters, g \in Garbages(m)} :
                     m \in Images} |->
     ApplyRun(call[1], call[2], call[3])]

ApplyOutcome(this, inputImage, garbage) == ApplyTable[<< this, inputImage, garbage >>]

-----------------------------------------------------------------------------
(* The filter object and its caller *)

VARIABLES
  shadowAmount,     \* the four fields of the filter
  highlightAmount,
  tonalWidth,
  blurRadius,
  lastCall,         \* the last call made: its name and its arguments
  callerImage,      \* the image the last call was given, as it was passed
  heap,             \* the pixel buffers alive after the last call, by address
  output,           \* the header of the image the last call returned
  status,           \* how the last call ended
  stages,           \* the stages of apply the last call entered, in order
  frame,            \* the luminance planes and masks the last call computed
  failedBefore,     \* an apply has thrown on this filter
  direct            \* the last direct call of a helper: its name, arguments, result

vars ==
  << shadowAmount, highlightAmount, tonalWidth, blurRadius, lastCall, callerImage,
     heap, output, status, stages, frame, failedBefore, direct >>

fields == << shadowAmount, highlightAmount, tonalWidth, blurRadius >>
This ==
  [shadowAmount |-> shadowAmount, highlightAmount |-> highlightAmount,
   tonalWidth |-> tonalWidth, blurRadius |-> blurRadius]

\* the address of the caller's image, and the addresses a new cv::Mat can get
InputBuffer == 1
Buffers == InputBuffer..(InputBuffer + 3)
NoImage == [rows |-> 0, cols |-> 0, channels |-> 0, buf |-> 0]
\* no helper was called directly
NoDirect == [op |-> "none"]

\* a setter takes no image, enters no stage of apply and returns nothing
NoApply ==
  /\ callerImage' = EmptyMat
  /\ heap' = << >>
  /\ output' = NoImage
  /\ stages' = << >>
  /\ frame' = NoFrame
  /\ UNCHANGED << failedBefore, direct >>

\* the result written into the caller's buffer
NewBufferAlias(inUse) == InputBuffer

\* cv::Mat bgrImage(labImage.size(), CV_8UC3) allocates a buffer not in use
NewBuffer(inUse) == CHOOSE b \in Buffers : b \notin DOMAIN inUse

\* apply resetting the blur radius
FieldsAfterApplyReset(this) == [this EXCEPT !.blurRadius = F0]

\* apply is a member function that assigns to no field
FieldsAfterApply(this) == this

\* at<cv::Vec3b> on an image whose pixels are not three bytes is caught by
\* CV_DbgAssert in a debug build of OpenCV and by nothing in a release build
Builds == {"release", "debug"}

\* the state after ShadowHighlightsFilter(shadows, highlights, width, radius)
Constructed(this) ==
  /\ shadowAmount = this.shadowAmount
  /\ highlightAmount = this.highlightAmount
  /\ tonalWidth = this.tonalWidth
  /\ blurRadius = this.blurRadius

Init ==
  /\ \E shadows \in Args, highlights \in Args, width \in Args, radius \in Args :
       /\ Constructed(ShadowHighlightsFilter(shadows, highlights, width, radius))
       /\ lastCall = [op |-> "ShadowHighlightsFilter",
                      args |-> << shadows, highlights, width, radius >>]
  /\ callerImage = EmptyMat
  /\ heap = << >>
  /\ output = NoImage
  /\ status = "ok"
  /\ stages = << >>
  /\ frame = NoFrame
  /\ failedBefore = FALSE
  /\ direct = NoDirect

setShadowAmount(amount) ==
  /\ shadowAmount' = ShadowAmountSet(amount)
  /\ lastCall' = [op |-> "setShadowAmount", args |-> << amount >>]
  /\ status' = "ok"
  /\ UNCHANGED << highlightAmount, tonalWidth, blurRadius >>
  /\ NoApply

setHighlightAmount(amount) ==
  /\ highlightAmount' = HighlightAmountSet(amount)
  /\ lastCall' = [op |-> "setHighlightAmount", args |-> << amount >>]
  /\ status' = "ok"
  /\ UNCHANGED << shadowAmount, tonalWidth, blurRadius >>
  /\ NoApply

setTonalWidth(width) ==
  /\ tonalWidth' = TonalWidthSet(width)
  /\ lastCall' = [op |-> "setTonalWidth", args |-> << width >>]
  /\ status' = "ok"
  /\ UNCHANGED << shadowAmount, highlightAmount, blurRadius >>
  /\ NoApply

setBlurRadius(radius) ==
  /\ blurRadius' = BlurRadiusSet(radius)
  /\ lastCall' = [op |-> "setBlurRadius", args |-> << radius >>]
  /\ status' = "ok"
  /\ UNCHANGED << shadowAmount, highlightAmount, tonalWidth >>
  /\ NoApply

\* a failed apply leaving the shadow amount of the next apply at zero
RunStale(build, this, inputImage, garbage) ==
  IF build = "debug" /\ ~IsEmpty(inputImage) /\ inputImage.channels # 3
  THEN Thrown("cv::Exception", << "BGR2Lab" >>)
  ELSE IF failedBefore
       THEN ApplyOutcome([this EXCEPT !.shadowAmount = F0], inputImage, garbage)
       ELSE ApplyOutcome(this, inputImage, garbage)

\* what apply(inputImage) does in the build
Run(build, this, inputImage, garbage) ==
  IF build = "debug" /\ ~IsEmpty(inputImage) /\ inputImage.channels # 3
  THEN Thrown("cv::Exception", << "BGR2Lab" >>)
  ELSE ApplyOutcome(this, inputImage, garbage)

\* the buffers alive and the image returned after a call that ended as run,
\* with its result, if any, in buffer buf
Returned(inputImage, run, buf) ==
  IF run.status = "ok"
  THEN /\ heap' = [b \in {InputBuffer, buf} |->
                     IF b = buf THEN run.result.data ELSE inputImage.data]
       /\ output' = [rows |-> run.result.rows, cols |-> run.result.cols,
                     channels |-> run.result.channels, buf |-> buf]
  ELSE /\ heap' = [b \in {InputBuffer} |-> inputImage.data]
       /\ output' = NoImage

\* the fields after the call
Fields(after) ==
  /\ shadowAmount' = after.shadowAmount
  /\ highlightAmount' = after.highlightAmount
  /\ tonalWidth' = after.tonalWidth
  /\ blurRadius' = after.blurRadius

\* the call apply(inputImage) ending as run
Call(inputImage, run) ==
  /\ callerImage' = inputImage
  /\ status' = run.status
  /\ stages' = run.stages
  /\ frame' = run.frame
  /\ Returned(inputImage, run, NewBuffer([b \in {InputBuffer} |-> inputImage.data]))
  /\ Fields(FieldsAfterApply(This))
  /\ failedBefore' = (failedBefore \/ run.status # "ok")
  /\ UNCHANGED direct

\* The caller holds inputImage in the buffer at InputBuffer, has dropped the
\* image of an earlier call, and calls apply(inputImage).
apply(inputImage) ==
  \E garbage \in Garbages(inputImage), build \in Builds :
    /\ lastCall' = [op |-> "apply", args |-> << >>]
    /\ Call(inputImage, Run(build, This, inputImage, garbage))

Next ==
  \/ \E amount \in Args : setShadowAmount(amount)
  \/ \E amount \in Args : setHighlightAmount(amount)
  \/ \E width \in Args : setTonalWidth(width)
  \/ \E radius \in Args : setBlurRadius(radius)
  \/ \E inputImage \in Images : apply(inputImage)

Spec == Init /\ [][Next]_vars

-----------------------------------------------------------------------------
(* Direct calls of the helpers: one call on a filter as constructed, on *)
(* arguments drawn from the sets below                                   *)

\* the filter the constructor's default arguments give
DefaultArgs == << F03, F03, F05, FromInt(15) >>
DefaultFilter ==
  ShadowHighlightsFilter(DefaultArgs[1], DefaultArgs[2], DefaultArgs[3], DefaultArgs[4])

\* nothing but the constructor was called on the filter
Untouched ==
  /\ callerImage = EmptyMat
  /\ heap = << >>
  /\ output = NoImage
  /\ status = "ok"
  /\ stages = << >>
  /\ frame = NoFrame
  /\ failedBefore = FALSE
  /\ direct = NoDirect

\* a direct call of a helper touches neither the filter nor its caller's images
filterVars ==
  << shadowAmount, highlightAmount, tonalWidth, blurRadius, lastCall, callerImage,
     heap, output, status, stages, frame, failedBefore >>

\* toRGB(toLab(image)) of a three-channel image
RoundTrip(image) == Lab2BGR(BGR2Lab(image, 0))

\* 8-bit channel values, and the pixels made of them and of the palette
ChannelSamples == {0, 1, 127, 128, 255}
SamplePixels ==
  {<< b, g, r >> : b \in ChannelSamples, g \in ChannelSamples, r \in ChannelSamples}
    \cup {Palette[i] : i \in 1..Len(Palette)}

\* clamped channel values 0 and k / 1020: every quarter of an 8-bit step
MaxQuarter == 1020
ClampedSamples == {F0} \cup {Ratio(k, MaxQuarter) : k \in 1..MaxQuarter}

ConverterInit ==
  /\ Constructed(DefaultFilter)
  /\ lastCall = [op |-> "ShadowHighlightsFilter", args |-> DefaultArgs]
  /\ Untouched

\* ColorConverter::Lab2BGR(ColorConverter::BGR2Lab(image)) on a one-pixel image
convertThereAndBack(pixel) ==
  /\ direct = NoDirect
  /\ direct' = [op |-> "Lab2BGR(BGR2Lab)", image |-> Mat(1, 1, 3, << pixel >>),
                result |-> RoundTrip(Mat(1, 1, 3, << pixel >>))]
  /\ UNCHANGED filterVars

\* saturate_cast(c * 255), as Lab2BGR calls it on a clamped channel value c
castChannel(c) ==
  /\ direct = NoDirect
  /\ direct' = [op |-> "saturate_cast", channel |-> c, value |-> FMul(c, F255),
                result |-> saturate_cast(FMul(c, F255))]
  /\ UNCHANGED filterVars

ConverterNext ==
  \/ \E pixel \in SamplePixels : convertThereAndBack(pixel)
  \/ \E c \in ClampedSamples : castChannel(c)

ConverterSpec == ConverterInit /\ [][ConverterNext]_vars

\* normalized luminances: 0, 1, and values at and around the thresholds the
\* tonal widths 0, 0.5 and 1 give
LumSamples ==
  {F0, F1, F01, Ratio(2, 10), Ratio(25, 100), Ratio(4, 10), Ratio(48, 100), F05, F07,
   Ratio(75, 100), Ratio(95, 100)}
LumCoarse == {F0, F05, F1}

\* the one-row planes of cols values of samples
RowPlanes(samples, cols) ==
  {Mat(1, cols, 1, d) : d \in [1..cols -> samples]}

\* the widest planes of LumSamples and the widest planes of LumCoarse
FineCols == 2
CoarseCols == 3

LumPlanes ==
  UNION {RowPlanes(LumSamples, cols) : cols \in 1..FineCols}
    \cup UNION {RowPlanes(LumCoarse, cols) : cols \in 1..CoarseCols}

\* a filter constructed with some tonal width and blur radius
MaskInit ==
  /\ \E width \in Args, radius \in Args :
       /\ Constructed(ShadowHighlightsFilter(F03, F03, width, radius))
       /\ lastCall = [op |-> "ShadowHighlightsFilter",
                      args |-> << F03, F03, width, radius >>]
  /\ Untouched

\* createAdvancedShadowMask(luminance) and createAdvancedHighlightMask(luminance)
createMasks(luminance) ==
  /\ direct = NoDirect
  /\ direct' = [op |-> "createAdvancedMasks", luminance |-> luminance,
                shadowMask |-> createAdvancedShadowMask(This, luminance),
                highlightMask |-> createAdvancedHighlightMask(This, luminance),
                smoothShadowMask |->
                  ShadowSmoothMask(luminance, FMul(F05, tonalWidth)),
                divisors |->
                  ShadowDivisors(luminance, FMul(F05, tonalWidth))
                    \cup HighlightDivisors(luminance,
                                           FSub(F1, FMul(F05, tonalWidth)))]
  /\ UNCHANGED filterVars

MaskNext == \E luminance \in LumPlanes : createMasks(luminance)

MaskSpec == MaskInit /\ [][MaskNext]_vars

\* mask values
MaskSamples == {F0, F05, F1}

\* a filter constructed with some shadow and highlight amounts
CorrectionInit ==
  /\ \E shadows \in Args, highlights \in Args :
       /\ Constructed(ShadowHighlightsFilter(shadows, highlights, F05, FromInt(15)))
       /\ lastCall = [op |-> "ShadowHighlightsFilter",
                      args |-> << shadows, highlights, F05, FromInt(15) >>]
  /\ Untouched

\* applyAdvancedCorrection(luminance, shadowMask, highlightMask)
correct(luminance, shadowMask, highlightMask) ==
  /\ direct = NoDirect
  /\ direct' = [op |-> "applyAdvancedCorrection", luminance |-> luminance,
                shadowMask |-> shadowMask, highlightMask |-> highlightMask,
                result |-> applyAdvancedCorrection(This, luminance, shadowMask,
                                                   highlightMask)]
  /\ UNCHANGED filterVars

CorrectionNext ==
  \E luminance \in RowPlanes(LumSamples, 1), shadowMask \in RowPlanes(MaskSamples, 1),
     highlightMask \in RowPlanes(MaskSamples, 1) :
    correct(luminance, shadowMask, highlightMask)

CorrectionSpec == CorrectionInit /\ [][CorrectionNext]_vars

-----------------------------------------------------------------------------
(* Direct calls of LabImageProcessor *)

\* float values of a Lab channel, and a value none of the images holds
PlaneValues == {F0, FromInt(50)}
Marker == FromInt(7)

\* the largest number of pixels of an image given to splitLab or mergeLab
PlaneArea == 2
Sizes == {<< r, c >> \in (1..PlaneArea) \X (1..PlaneArea) : r * c <= PlaneArea}

\* float images of one, three and four channels
FloatImages ==
  {EmptyMat} \cup
  UNION {{Mat(size[1], size[2], ch, d) :
            d \in [1..(size[1] * size[2]) -> [1..ch -> PlaneValues]]} :
           size \in Sizes, ch \in {1, 3, 4}}

\* single-channel float planes
FloatPlanes ==
  UNION {{Mat(size[1], size[2], 1, d) : d \in [1..(size[1] * size[2]) -> PlaneValues]} :
           size \in Sizes}

\* three planes of any sizes, and two and four planes of one pixel
PlaneLists ==
  (FloatPlanes \X FloatPlanes \X FloatPlanes)
    \cup {<< a, b >> : a \in RowPlanes(PlaneValues, 1), b \in RowPlanes(PlaneValues, 1)}
    \cup {<< a, b, a, b >> : a \in RowPlanes(PlaneValues, 1),
                             b \in RowPlanes(PlaneValues, 1)}

\* the planes have the dimensions of the first
SameSize(channels) ==
  \A k \in 1..Len(channels) :
    channels[k].rows = channels[1].rows /\ channels[k].cols = channels[1].cols

\* mergeLab reads at<float>(y, x) outside the rows or columns of a plane:
\* CV_DbgAssert throws in a debug build of OpenCV
ReadsOutsidePlane(channels) ==
  \E k \in 2..3 : channels[k].rows < channels[1].rows \/ channels[k].cols < channels[1].cols

\* mergeLab reads past the end of the buffer of a plane
ReadsPastPlane(channels) ==
  \E k \in 2..3 :
    (channels[1].rows - 1) * channels[k].cols + channels[1].cols > Total(channels[k])

\* what a float past the end of a buffer may hold
GarbageFloats == {F0, NaN}
FloatGarbages(channels) ==
  IF Len(channels) = 3 /\ ReadsPastPlane(channels) THEN GarbageFloats ELSE {F0}

\* a run of splitLab
SplitRun(labImage) ==
  IF splitLabThrows(labImage)
  THEN [status |-> "InvalidInput", planes |-> << >>]
  ELSE [status |-> "ok", planes |-> splitLab(labImage)]

\* a run of mergeLab
MergeRun(build, channels, garbage) ==
  IF mergeLabThrows(channels)
  THEN [status |-> "InvalidInput", result |-> EmptyMat]
  ELSE IF build = "debug" /\ ReadsOutsidePlane(channels)
       THEN [status |-> "cv::Exception", result |-> EmptyMat]
       ELSE [status |-> "ok", result |-> mergeLab(channels, garbage)]

\* the heap with one more buffer, holding data
Alloc(inUse, data) ==
  [b \in DOMAIN inUse \cup {NewBuffer(inUse)} |->
     IF b \in DOMAIN inUse THEN inUse[b] ELSE data]

\* the heap after the first k planes were allocated and filled
RECURSIVE HeapUpTo(_, _, _)
HeapUpTo(labImage, planes, k) ==
  IF k = 0
  THEN [b \in {InputBuffer} |-> labImage.data]
  ELSE Alloc(HeapUpTo(labImage, planes, k - 1), planes[k].data)

\* the header of plane k: channels[k] = cv::Mat(labImage.size(), CV_32F)
PlaneHeader(labImage, planes, k) ==
  [rows |-> planes[k].rows, cols |-> planes[k].cols, channels |-> planes[k].channels,
   buf |-> NewBuffer(HeapUpTo(labImage, planes, k - 1))]

\* nothing but the constructor was called on the default filter
PlaneInit ==
  /\ Constructed(DefaultFilter)
  /\ lastCall = [op |-> "ShadowHighlightsFilter", args |-> DefaultArgs]
  /\ Untouched

planeVars ==
  << shadowAmount, highlightAmount, tonalWidth, blurRadius, lastCall, callerImage,
     output, status, stages, frame, failedBefore >>

SplitDone(labImage, run) ==
  /\ heap' = HeapUpTo(labImage, run.planes, Len(run.planes))
  /\ direct' = [op |-> "splitLab", image |-> labImage, status |-> run.status,
                planes |-> [k \in 1..Len(run.planes) |->
                              PlaneHeader(labImage, run.planes, k)],
                written |-> << >>]

\* LabImageProcessor::splitLab(labImage), the caller holding labImage in the
\* buffer at InputBuffer
split(labImage) ==
  /\ direct = NoDirect
  /\ SplitDone(labImage, SplitRun(labImage))
  /\ UNCHANGED planeVars

\* planes[k].at<float>(y, x) = value after a split, pixel (y, x) being pixel i
writePlane(k, i, value) ==
  /\ direct.op = "splitLab"
  /\ direct.status = "ok"
  /\ direct.written = << >>
  /\ i <= Total(direct.image)
  /\ heap' = [heap EXCEPT ![direct.planes[k].buf][i] = value]
  /\ direct' = [direct EXCEPT !.written = << k, i, value >>]
  /\ UNCHANGED planeVars

MergeDone(build, channels, run) ==
  direct' = [op |-> "mergeLab", channels |-> channels, build |-> build,
             status |-> run.status, result |-> run.result]

\* LabImageProcessor::mergeLab(channels)
merge(channels) ==
  /\ direct = NoDirect
  /\ \E build \in Builds, garbage \in FloatGarbages(channels) :
       MergeDone(build, channels, MergeRun(build, channels, garbage))
  /\ UNCHANGED filterVars

\* mergeLab(splitLab(labImage))
mergeSplit(labImage) ==
  /\ direct = NoDirect
  /\ ~splitLabThrows(labImage)
  /\ direct' = [op |-> "mergeLab(splitLab)", image |-> labImage,
                result |-> mergeLab(splitLab(labImage), F0)]
  /\ UNCHANGED filterVars

\* splitLab(mergeLab(channels)) of three planes of one size
splitMerge(channels) ==
  /\ direct = NoDirect
  /\ Len(channels) = 3
  /\ SameSize(channels)
  /\ direct' = [op |-> "splitLab(mergeLab)", channels |-> channels,
                result |-> splitLab(mergeLab(channels, F0))]
  /\ UNCHANGED filterVars

PlaneNext ==
  \/ \E labImage \in FloatImages : split(labImage)
  \/ \E k \in 1..3, i \in 1..PlaneArea : writePlane(k, i, Marker)
  \/ \E channels \in PlaneLists : merge(channels)
  \/ \E labImage \in FloatImages : mergeSplit(labImage)
  \/ \E channels \in PlaneLists : splitMerge(channels)

PlaneSpec == PlaneInit /\ [][PlaneNext]_vars

-----------------------------------------------------------------------------
(* Direct calls of applyConvolution *)

\* the widest and highest plane convolved
MaxSide == 3

\* the kernels of applyGaussianBlur(input, 0.5) and applyGaussianBlur(input, 5)
ConvolutionKernels ==
  << createGaussianKernel(KernelSize(F05), F05),
     createGaussianKernel(KernelSize(FromInt(5)), FromInt(5)) >>

\* planes with one value at every pixel
ConstantPlanes ==
  {Mat(r, c, 1, [i \in 1..(r * c) |-> v]) :
     r \in 1..MaxSide, c \in 1..MaxSide, v \in LumSamples}

\* rows of different values
VariedPlanes == UNION {RowPlanes(LumCoarse, cols) : cols \in 1..MaxSide}

\* nothing but the constructor was called on the default filter
ConvolutionInit ==
  /\ Constructed(DefaultFilter)
  /\ lastCall = [op |-> "ShadowHighlightsFilter", args |-> DefaultArgs]
  /\ Untouched

\* applyConvolution(input, kernel)
convolve(input, kernel) ==
  /\ direct = NoDirect
  /\ direct' = [op |-> "applyConvolution", input |-> input, kernel |-> kernel,
                result |-> applyConvolution(input, kernel)]
  /\ UNCHANGED filterVars

ConvolutionNext ==
  \E input \in ConstantPlanes \cup VariedPlanes, k \in 1..Len(ConvolutionKernels) :
    convolve(input, ConvolutionKernels[k])

ConvolutionSpec == ConvolutionInit /\ [][ConvolutionNext]_vars

-----------------------------------------------------------------------------
(* Direct calls of createGaussianKernel *)

\* the largest sigma, in tenths
MaxTenths == 60

\* sizes and sigmas: kernels of 3 x 3 with a sigma of 0.05 and of 0.5 and
\* more, and kernels of 5 x 5 with a sigma of 1 and more
KernelInputs ==
  {<< 3, Ratio(1, 20) >>}
    \cup {<< 3, Ratio(k, 10) >> : k \in 5..MaxTenths}
    \cup {<< 5, Ratio(k, 10) >> : k \in 10..MaxTenths}

\* nothing but the constructor was called on the default filter
KernelInit ==
  /\ Constructed(DefaultFilter)
  /\ lastCall = [op |-> "ShadowHighlightsFilter", args |-> DefaultArgs]
  /\ Untouched

\* createGaussianKernel(size, sigma)
buildKernel(size, sigma) ==
  /\ direct = NoDirect
  /\ direct' = [op |-> "createGaussianKernel", size |-> size, sigma |-> sigma,
                kernel |-> createGaussianKernel(size, sigma)]
  /\ UNCHANGED filterVars

KernelNext == \E input \in KernelInputs : buildKernel(input[1], input[2])

KernelSpec == KernelInit /\ [][KernelNext]_vars

-----------------------------------------------------------------------------
(* Direct calls of applyGaussianBlur and applyFastGaussianBlur *)

BlurPlanes == ConstantPlanes \cup VariedPlanes

\* nothing but the constructor was called on the default filter
BlurInit ==
  /\ Constructed(DefaultFilter)
  /\ lastCall = [op |-> "ShadowHighlightsFilter", args |-> DefaultArgs]
  /\ Untouched

\* the kernel applyGaussianBlur builds, none when it returns the clone
KernelUsed(radius) ==
  IF FLt(radius, F01) THEN EmptyMat ELSE GaussianKernels[radius]

\* weightSum of every pixel in applyConvolution, none when it is not called
WeightSumsUsed(input, radius) ==
  IF FLt(radius, F01) THEN << >> ELSE WeightSums(input, GaussianKernels[radius])

\* the result is a cv::Mat of its own: input.clone(), or cv::Mat::zeros in
\* applyConvolution
Blurred(input, result) ==
  /\ heap' = Alloc([b \in {InputBuffer} |-> input.data], result.data)
  /\ output' = [rows |-> result.rows, cols |-> result.cols,
                channels |-> result.channels,
                buf |-> NewBuffer([b \in {InputBuffer} |-> input.data])]

blurVars ==
  << shadowAmount, highlightAmount, tonalWidth, blurRadius, lastCall, callerImage,
     status, stages, frame, failedBefore >>

\* applyGaussianBlur(input, radius), the caller holding input in the buffer
\* at InputBuffer
blur(input, radius) ==
  /\ direct = NoDirect
  /\ direct' = [op |-> "applyGaussianBlur", input |-> input, radius |-> radius,
                kernel |-> KernelUsed(radius),
                weightSums |-> WeightSumsUsed(input, radius),
                written |-> << >>]
  /\ Blurred(input, applyGaussianBlur(input, radius))
  /\ UNCHANGED blurVars

\* result.at<float>(y, x) = value after a blur, pixel (y, x) being pixel i
writeBlurred(i, value) ==
  /\ direct.op = "applyGaussianBlur"
  /\ direct.written = << >>
  /\ i <= Total(direct.input)
  /\ heap' = [heap EXCEPT ![output.buf][i] = value]
  /\ direct' = [direct EXCEPT !.written = << i, value >>]
  /\ UNCHANGED blurVars
  /\ UNCHANGED output

\* applyFastGaussianBlur(input, radius)
fastBlur(input, radius) ==
  /\ direct = NoDirect
  /\ direct' = [op |-> "applyFastGaussianBlur", input |-> input, radius |-> radius,
                passes |-> FastBlurTrace(input, radius),
                result |-> applyFastGaussianBlur(input, radius)]
  /\ UNCHANGED filterVars

BlurNext ==
  \/ \E input \in BlurPlanes, radius \in BlurRadii : blur(input, radius)
  \/ \E i \in 1..(MaxSide * MaxSide) : writeBlurred(i, Marker)
  \/ \E input \in VariedPlanes, radius \in FastBlurRadii : fastBlur(input, radius)

BlurSpec == BlurInit /\ [][BlurNext]_vars

-----------------------------------------------------------------------------
(* The claims about the filter object *)

\* lo <= v <= hi, as floats
Within(v, lo, hi) == FLe(lo, v) /\ FLe(v, hi)

\* C1: after construction and after every setter and apply call,
\* shadowAmount, highlightAmount and tonalWidth are in [0, 1] and blurRadius
\* is in [0, 50].
C1_FieldsInRange ==
  /\ Within(shadowAmount, F0, F1)
  /\ Within(highlightAmount, F0, F1)
  /\ Within(tonalWidth, F0, F1)
  /\ Within(blurRadius, F0, F50)

\* a setter was given a value above 1 and one below 0, and an apply followed
C1_Witness ==
  /\ lastCall.op = "apply"
  /\ shadowAmount = F1
  /\ tonalWidth = F0
  /\ blurRadius = F50

\* the value the call stored for an ordered argument v of a field with range
\* [lo, hi]: v itself inside the range, hi above it, lo below it
Stored(v, lo, hi) == IF FLt(v, lo) THEN lo ELSE IF FGt(v, hi) THEN hi ELSE v

\* the field the last call stored args[k] in holds what Stored says
StoredAs(k, field, lo, hi) ==
  IsNaN(lastCall.args[k]) \/ field = Stored(lastCall.args[k], lo, hi)

\* C2: the constructor and the setters raise no error and store
\* min(max(v, lo), hi) for every ordered argument v: v inside the range, hi
\* above it, lo below it.
C2_ClampsNeverRejects ==
  /\ lastCall.op = "ShadowHighlightsFilter" =>
       /\ status = "ok"
       /\ StoredAs(1, shadowAmount, F0, F1)
       /\ StoredAs(2, highlightAmount, F0, F1)
       /\ StoredAs(3, tonalWidth, F0, F1)
       /\ StoredAs(4, blurRadius, F0, F50)
  /\ lastCall.op = "setShadowAmount" =>
       status = "ok" /\ StoredAs(1, shadowAmount, F0, F1)
  /\ lastCall.op = "setHighlightAmount" =>
       status = "ok" /\ StoredAs(1, highlightAmount, F0, F1)
  /\ lastCall.op = "setTonalWidth" =>
       status = "ok" /\ StoredAs(1, tonalWidth, F0, F1)
  /\ lastCall.op = "setBlurRadius" =>
       status = "ok" /\ StoredAs(1, blurRadius, F0, F50)

\* the filter was constructed with shadows = 5.0 and radius = -10 and holds
\* shadowAmount = 1.0 and blurRadius = 0.0
C2_Witness ==
  /\ lastCall.op = "ShadowHighlightsFilter"
  /\ lastCall.args[1] = FromInt(5)
  /\ lastCall.args[4] = FNeg(FromInt(10))
  /\ shadowAmount = F1
  /\ blurRadius = F0

\* C3: a setter changes its own field only, and apply, whether it returns an
\* image or throws, changes none of the four fields.
C3_OnlyOwnFieldChanges ==
  [][/\ lastCall'.op = "setShadowAmount" =>
          UNCHANGED << highlightAmount, tonalWidth, blurRadius >>
     /\ lastCall'.op = "setHighlightAmount" =>
          UNCHANGED << shadowAmount, tonalWidth, blurRadius >>
     /\ lastCall'.op = "setTonalWidth" =>
          UNCHANGED << shadowAmount, highlightAmount, blurRadius >>
     /\ lastCall'.op = "setBlurRadius" =>
          UNCHANGED << shadowAmount, highlightAmount, tonalWidth >>
     /\ lastCall'.op = "apply" => UNCHANGED fields]_vars

\* an apply on the empty image has thrown on a filter with non-default fields
C3_Witness ==
  /\ lastCall.op = "apply"
  /\ status = "InvalidInput"
  /\ IsEmpty(callerImage)
  /\ blurRadius = F50
  /\ shadowAmount = F05

\* C4: apply on an empty image throws InvalidInput before any stage is
\* entered and returns no image.
C4_EmptyImageFailsFirst ==
  (lastCall.op = "apply" /\ IsEmpty(callerImage)) =>
    /\ status = "InvalidInput"
    /\ stages = << >>
    /\ output = NoImage
    /\ DOMAIN heap = {InputBuffer}

\* apply was called on the empty image
C4_Witness ==
  lastCall.op = "apply" /\ IsEmpty(callerImage) /\ status = "InvalidInput"

\* C5: apply on a non-empty image that does not have three channels throws
\* InvalidInput from splitLab and returns no image.
C5_NonThreeChannelsRejected ==
  (lastCall.op = "apply" /\ ~IsEmpty(callerImage) /\ callerImage.channels # 3) =>
    /\ status = "InvalidInput"
    /\ stages = << "BGR2Lab", "splitLab" >>
    /\ output = NoImage

\* what apply(callerImage) gives on a filter constructed with the four
\* current values
FreshOutcome ==
  ApplyTable[<< ShadowHighlightsFilter(shadowAmount, highlightAmount, tonalWidth,
                                       blurRadius), callerImage, 0 >>]

C7_InputUnmodified ==
  lastCall.op = "apply" =>
    /\ InputBuffer \in DOMAIN heap
    /\ heap[InputBuffer] = callerImage.data
    /\ status = "ok" => (output.buf \in DOMAIN heap /\ output.buf # InputBuffer)

\* apply returned an image that differs from the one it was given
C7_Witness ==
  /\ lastCall.op = "apply"
  /\ status = "ok"
  /\ callerImage = ScenarioImage
  /\ heap[output.buf] # callerImage.data

\* the pixels of two images differ by at most tolerance in every channel
Near(left, right, tolerance) ==
  /\ Len(left) = Len(right)
  /\ \A i \in 1..Len(left) : \A c \in 1..3 : Abs(left[i][c] - right[i][c]) <= tolerance

\* the last call was an apply with both amounts zero that returned an image
\* of a three-channel input
NeutralApply ==
  /\ lastCall.op = "apply"
  /\ status = "ok"
  /\ callerImage.channels = 3
  /\ shadowAmount = F0
  /\ highlightAmount = F0

-----------------------------------------------------------------------------
(* The claims about ColorConverter *)

\* C9: toRGB(toLab(image)) differs from a three-channel 8-bit image by at
\* most 1 in every channel of every pixel; black, white and mid-gray included.
C9_RoundTripWithinOne ==
  direct.op = "Lab2BGR(BGR2Lab)" => Near(direct.image.data, direct.result.data, 1)

\* white came back one lower in every channel
C9_Witness ==
  /\ direct.op = "Lab2BGR(BGR2Lab)"
  /\ direct.image.data = << <<255, 255, 255>> >>
  /\ direct.result.data = << <<254, 254, 254>> >>

\* C19: a clamped channel value v becomes the integer nearest to v * 255.
C19_CastRoundsToNearest ==
  direct.op = "saturate_cast" =>
    /\ direct.result \in 0..255
    /\ FLe(FSub(direct.value, FromInt(direct.result)), F05)
    /\ FLe(FSub(FromInt(direct.result), direct.value), F05)

-----------------------------------------------------------------------------
(* The claims about the masks *)

\* every value of the plane is in [0, 1]
InUnit(plane) == \A i \in 1..Total(plane) : Within(plane.data[i], F0, F1)

\* the mask is zero at every pixel
AllZero(mask) == \A i \in 1..Total(mask) : mask.data[i] = F0

C11_MaskMaxIsOne ==
  direct.op = "createAdvancedMasks" =>
    /\ AllZero(direct.shadowMask)
         \/ MaxOf(direct.shadowMask.data, 1, Total(direct.shadowMask)) = F1
    /\ AllZero(direct.highlightMask)
         \/ MaxOf(direct.highlightMask.data, 1, Total(direct.highlightMask)) = F1

\* of two pixels of the plane, the darker has the larger or equal shadow mask
\* value and the smaller or equal highlight mask value
Monotone(luminance, shadowMask, highlightMask) ==
  \A p \in 1..Total(luminance) : \A q \in 1..Total(luminance) :
    FLe(luminance.data[p], luminance.data[q]) =>
      /\ FGe(shadowMask.data[p], shadowMask.data[q])
      /\ FLe(highlightMask.data[p], highlightMask.data[q])

C15_AllWhite ==
  (direct.op = "createAdvancedMasks"
     /\ \A i \in 1..Total(direct.luminance) : direct.luminance.data[i] = F1) =>
    /\ AllZero(direct.shadowMask)
    /\ \A i \in 1..Total(direct.highlightMask) : direct.highlightMask.data[i] = F1

\* a three-pixel all-white plane went through the blur of radius 50
C15_Witness ==
  /\ direct.op = "createAdvancedMasks"
  /\ direct.luminance.data = << F1, F1, F1 >>
  /\ blurRadius = F50
  /\ tonalWidth = F05

-----------------------------------------------------------------------------
(* The claims about the correction *)

\* lum + shadowAmount * shadowMask * (1 - lum) * 0.7
\*     - highlightAmount * highlightMask * lum * 0.7, in single precision
Uncorrected(lum, shadow, highlight) ==
  FSub(FAdd(lum, FMul(FMul(FMul(shadowAmount, shadow), FSub(F1, lum)), F07)),
       FMul(FMul(FMul(highlightAmount, highlight), lum), F07))

\* C13: for a normalized luminance lum in [0, 1] the corrected luminance is
\* lum + shadowAmount * shadowMask * (1 - lum) * 0.7
\*     - highlightAmount * highlightMask * lum * 0.7
\* clamped into [lum * 0.3, 1 - (1 - lum) * 0.3]; it lies in that range and in
\* [0, 1].
C13_CorrectedInRange ==
  (direct.op = "applyAdvancedCorrection" /\ InUnit(direct.luminance)) =>
    \A i \in 1..Total(direct.luminance) :
      /\ direct.result.data[i] =
           Stored(Uncorrected(direct.luminance.data[i], direct.shadowMask.data[i],
                              direct.highlightMask.data[i]),
                  FMul(direct.luminance.data[i], F03),
                  FSub(F1, FMul(FSub(F1, direct.luminance.data[i]), F03)))
      /\ Within(direct.result.data[i], FMul(direct.luminance.data[i], F03),
                FSub(F1, FMul(FSub(F1, direct.luminance.data[i]), F03)))
      /\ Within(direct.result.data[i], F0, F1)

\* a pixel of luminance 0.2 was darkened by the highlight correction of a
\* filter with highlightAmount 1 under a mask value of 0.5
C13_Witness ==
  /\ direct.op = "applyAdvancedCorrection"
  /\ highlightAmount = F1
  /\ shadowAmount = F0
  /\ direct.luminance.data = << Ratio(2, 10) >>
  /\ direct.highlightMask.data = << F05 >>
  /\ FLt(direct.result.data[1], direct.luminance.data[1])

\* the last call was apply on the 2 x 2 image [[black, white], [mid-gray,
\* mid-gray]] by filter(shadows = 0.5, highlights = 0, width = 0.5, radius = 0)
ScenarioApplied ==
  /\ lastCall.op = "apply"
  /\ status = "ok"
  /\ callerImage = ScenarioImage
  /\ shadowAmount = F05
  /\ highlightAmount = F0
  /\ tonalWidth = F05
  /\ blurRadius = F0

\* the change of the luminance of pixel i (from 1) in the last apply
Change(i) == FSub(frame.correctedLuminance.data[i], frame.luminanceFloat.data[i])

\* C14: in the scenario the black pixel is brightened, the white pixel keeps
\* its luminance and each mid-gray pixel changes by less than the black one;
\* and whenever highlightAmount = 0 and blurRadius = 0, every pixel whose
\* luminance exceeds 0.5 * tonalWidth keeps its luminance.
C14_Scenario ==
  /\ ScenarioApplied =>
       /\ FGt(frame.correctedLuminance.data[1], frame.luminanceFloat.data[1])
       /\ frame.correctedLuminance.data[2] = frame.luminanceFloat.data[2]
       /\ \A i \in 3..4 : /\ FLt(Change(i), Change(1))
                          /\ FLt(FNeg(Change(i)), Change(1))
  /\ (lastCall.op = "apply" /\ status = "ok" /\ callerImage.channels = 3
        /\ highlightAmount = F0 /\ blurRadius = F0) =>
       \A i \in 1..Total(frame.luminanceFloat) :
         FGt(frame.luminanceFloat.data[i], FMul(F05, tonalWidth)) =>
           frame.correctedLuminance.data[i] = frame.luminanceFloat.data[i]

\* the scenario was run
C14_Witness == ScenarioApplied /\ FGt(Change(1), F03)

-----------------------------------------------------------------------------
(* The claims about LabImageProcessor *)

\* the value of plane k at pixel i after the write recorded in direct
PlaneValue(k, i) ==
  IF direct.written # << >> /\ direct.written[1] = k /\ direct.written[2] = i
  THEN direct.written[3]
  ELSE direct.image.data[i][k]

\* C16: splitLab fails with InvalidInput unless the image has exactly 3
\* channels; otherwise it returns three planes of the image's dimensions with
\* plane[k](y, x) = image(y, x)[k], each in a buffer of its own, so that a
\* later write to a plane does not change the source image.
C16_SplitCopies ==
  direct.op = "splitLab" =>
    IF direct.image.channels # 3
    THEN direct.status = "InvalidInput" /\ direct.planes = << >>
    ELSE /\ direct.status = "ok"
         /\ Len(direct.planes) = 3
         /\ heap[InputBuffer] = direct.image.data
         /\ \A k \in 1..3 :
              /\ direct.planes[k].rows = direct.image.rows
              /\ direct.planes[k].cols = direct.image.cols
              /\ direct.planes[k].channels = 1
              /\ direct.planes[k].buf # InputBuffer
              /\ \A j \in 1..3 : j # k => direct.planes[j].buf # direct.planes[k].buf
              /\ \A i \in 1..Total(direct.image) :
                   heap[direct.planes[k].buf][i] = PlaneValue(k, i)

\* the b plane of a split two-pixel image with different pixels was written
C16_Witness ==
  /\ direct.op = "splitLab"
  /\ direct.status = "ok"
  /\ Total(direct.image) = 2
  /\ direct.image.data[1] = << F0, FromInt(50), F0 >>
  /\ direct.image.data[2] = << FromInt(50), F0, FromInt(50) >>
  /\ direct.written = << 3, 2, Marker >>

\* C17: mergeLab(splitLab(image)) = image for every 3-channel float image, and
\* splitLab(mergeLab(planes)) = planes for every three planes of one size.
C17_MutualInverses ==
  /\ (direct.op = "mergeLab(splitLab)" /\ direct.image.channels = 3) =>
       direct.result = direct.image
  /\ (direct.op = "splitLab(mergeLab)" /\ Len(direct.channels) = 3
        /\ SameSize(direct.channels)) =>
       direct.result = direct.channels

\* three different planes of two pixels were merged and split again
C17_Witness ==
  /\ direct.op = "splitLab(mergeLab)"
  /\ Total(direct.channels[1]) = 2
  /\ direct.channels[1] # direct.channels[2]
  /\ direct.channels[2] # direct.channels[3]
  /\ direct.channels[1] # direct.channels[3]
  /\ Len(direct.result) = 3

\* C18: mergeLab fails with InvalidInput when the three planes do not all have
\* the same dimensions, as it does when the number of planes is not 3.
C18_MergeRejectsSizes ==
  (direct.op = "mergeLab" /\ (Len(direct.channels) # 3 \/ ~SameSize(direct.channels))) =>
    direct.status = "InvalidInput"

-----------------------------------------------------------------------------
(* The claims about the convolution *)

\* the kernel sample n (from 0, row by row) of output pixel (y, x) falls
\* inside the plane
InBounds(input, kernel, y, x, n) ==
  /\ y + (n \div kernel.cols) - kernel.rows \div 2 \in 0..(input.rows - 1)
  /\ x + (n % kernel.cols) - kernel.rows \div 2 \in 0..(input.cols - 1)

\* the plane's value under kernel sample n of output pixel (y, x)
Sample(input, kernel, y, x, n) ==
  input.data[(y + (n \div kernel.cols) - kernel.rows \div 2) * input.cols
             + (x + (n % kernel.cols) - kernel.rows \div 2) + 1]

\* the sum of pixel * weight and the sum of weight over the in-bounds kernel
\* samples from n on, added to sum and weightSum
RECURSIVE WeightedSums(_, _, _, _, _, _, _)
WeightedSums(input, kernel, y, x, n, sum, weightSum) ==
  IF n = kernel.rows * kernel.cols
  THEN << sum, weightSum >>
  ELSE IF InBounds(input, kernel, y, x, n)
       THEN WeightedSums(input, kernel, y, x, n + 1,
                         FAdd(sum, FMul(Sample(input, kernel, y, x, n),
                                        kernel.data[n + 1])),
                         FAdd(weightSum, kernel.data[n + 1]))
       ELSE WeightedSums(input, kernel, y, x, n + 1, sum, weightSum)

\* sum / weightSum
Average(sums) == FDiv(sums[1], sums[2])

\* the plane has one value at every pixel
IsConstant(plane) == \A i \in 1..Total(plane) : plane.data[i] = plane.data[1]

\* every output pixel is the weighted average of its in-bounds samples
WeightedAverages ==
  \A i \in 1..Total(direct.input) :
    direct.result.data[i] =
      Average(WeightedSums(direct.input, direct.kernel, RowOf(direct.input, i),
                           ColOf(direct.input, i), 0, F0, F0))

Rounding == FDiv(F1, FromInt(2^20))

\* |value - c| <= c * 2^-20
Rounded(value, c) ==
  FLe(IF FLt(value, c) THEN FSub(c, value) ELSE FSub(value, c), FMul(c, Rounding))

-----------------------------------------------------------------------------
(* The claims about the blur *)

\* the float f, 0 <= f <= 1, in units of 2^-30, rounded down
ToQ30(f) ==
  IF Ex(f) < 96 THEN 0
  ELSE IF Ex(f) >= 120 THEN Man(f) * 2^(Ex(f) - 120)
  ELSE Man(f) \div 2^(120 - Ex(f))

\* the sum of the entries from n on, in units of 2^-30, each rounded down
RECURSIVE SumQ30(_, _)
SumQ30(values, n) ==
  IF n > Len(values) THEN 0 ELSE ToQ30(values[n]) + SumQ30(values, n + 1)

\* the entries are strictly positive and their sum, which lies between the sum
\* of the entries rounded down and that sum plus one unit an entry, is within
\* 1e-5 = 10737 / 2^30 of 1
Normalized01(kernel) ==
  /\ \A i \in 1..Total(kernel) : FGt(kernel.data[i], F0)
  /\ SumQ30(kernel.data, 1) >= P30 - 10737
  /\ SumQ30(kernel.data, 1) + Total(kernel) <= P30 + 10737

PassCount(radius) ==
  IF FLt(radius, F1) THEN 0
  ELSE IF FLe(radius, F8) THEN 1
  ELSE IF FLe(radius, F20) THEN 2
  ELSE 3
PassRadius(radius) ==
  IF FLe(radius, F8) THEN radius
  ELSE IF FLe(radius, F20) THEN FDiv(radius, F2)
  ELSE FDiv(radius, FromInt(3))

\* C21: applyFastGaussianBlur(plane, radius) performs 0 passes when
\* radius < 1, 1 pass at radius when 1 <= radius <= 8, 2 passes at radius / 2
\* when 8 < radius <= 20 and 3 passes at radius / 3 when radius > 20, each pass
\* taking the output of the pass before as its input.
C21_PassesByRadius ==
  direct.op = "applyFastGaussianBlur" =>
    /\ Len(direct.passes) = PassCount(direct.radius)
    /\ \A k \in 1..Len(direct.passes) :
         /\ direct.passes[k].radius = PassRadius(direct.radius)
         /\ direct.passes[k].input =
              (IF k = 1 THEN direct.input ELSE direct.passes[k - 1].output)
    /\ direct.result =
         (IF direct.passes = << >> THEN direct.input
          ELSE direct.passes[Len(direct.passes)].output)

\* a plane of three different values went through three passes at radius 10
C21_Witness ==
  /\ direct.op = "applyFastGaussianBlur"
  /\ direct.radius = FromInt(30)
  /\ direct.input.data = << F0, F05, F1 >>
  /\ Len(direct.passes) = 3
  /\ direct.passes[1].radius = FromInt(10)
  /\ direct.passes[2].output # direct.passes[1].output

\* n when n is odd and n + 1 when n is even
Odd(n) == IF n % 2 = 0 THEN n + 1 ELSE n

\* the integer nearest to v >= 0
Nearest(v) == Trunc(FAdd(v, F05))

\* C22: for every radius >= 0.1, applyGaussianBlur uses a square kernel whose
\* side is odd, at least 3 and equal to
\* max(3, odd(round(radius * 2 + 1))), round being round-to-nearest.
C22_KernelSideRounded ==
  (direct.op = "applyGaussianBlur" /\ FGe(direct.radius, F01)) =>
    /\ direct.kernel.rows = direct.kernel.cols
    /\ direct.kernel.rows % 2 = 1
    /\ direct.kernel.rows >= 3
    /\ direct.kernel.rows =
         (IF Odd(Nearest(FAdd(FMul(direct.radius, F2), F1))) > 3
          THEN Odd(Nearest(FAdd(FMul(direct.radius, F2), F1)))
          ELSE 3)

\* C24: in applyConvolution the zero-weight branch is not taken: for every
\* non-empty plane and every kernel applyGaussianBlur builds, the weight sum
\* of every pixel is strictly positive, the centre of the kernel having a
\* positive weight.
C24_WeightSumPositive ==
  (direct.op = "applyGaussianBlur" /\ FGe(direct.radius, F01)) =>
    /\ FGt(direct.kernel.data[(Total(direct.kernel) + 1) \div 2], F0)
    /\ Len(direct.weightSums) = Total(direct.input)
    /\ \A i \in 1..Total(direct.input) : FGt(direct.weightSums[i], F0)

\* a 3 x 3 plane was convolved with the 3 x 3 kernel of radius 0.5: a corner
\* has a smaller weight sum than the centre
C24_Witness ==
  /\ direct.op = "applyGaussianBlur"
  /\ direct.radius = F05
  /\ direct.input.rows = 3
  /\ direct.input.cols = 3
  /\ FLt(direct.weightSums[1], direct.weightSums[5])

\* C25: applyGaussianBlur(plane, radius) with radius < 0.1 returns a plane
\* equal to the input at every pixel, in a buffer of its own: the input is not
\* modified, not even by a later write to the result.
C25_NoOpCopies ==
  (direct.op = "applyGaussianBlur" /\ FLt(direct.radius, F01)) =>
    /\ output.rows = direct.input.rows
    /\ output.cols = direct.input.cols
    /\ output.buf # InputBuffer
    /\ heap[InputBuffer] = direct.input.data
    /\ \A i \in 1..Total(direct.input) :
         heap[output.buf][i] =
           (IF direct.written # << >> /\ direct.written[1] = i
            THEN direct.written[2]
            ELSE direct.input.data[i])

\* the result of a blur of radius 0.05 of a plane of three values was written
C25_Witness ==
  /\ direct.op = "applyGaussianBlur"
  /\ direct.radius = Ratio(1, 20)
  /\ direct.input.data = << F0, F05, F1 >>
  /\ direct.written = << 2, Marker >>

\* the plane after n calls of applyGaussianBlur with the radius
RECURSIVE Repeated(_, _, _)
Repeated(plane, radius, n) ==
  IF n = 0 THEN plane ELSE Repeated(applyGaussianBlur(plane, radius), radius, n - 1)

\* the passes apply makes over a mask, by blurRadius alone, and their radius
ApplyPasses == IF FLt(blurRadius, F1) THEN 0 ELSE IF FLe(blurRadius, F8) THEN 1 ELSE 2
ApplyPassRadius ==
  IF FLe(blurRadius, F8) THEN blurRadius ELSE FDiv(StdMin(blurRadius, F20), F2)

\* C26: during apply each mask goes through 0 passes when blurRadius < 1 (the
\* masks are those of blurRadius = 0), 1 pass when 1 <= blurRadius <= 8 and 2
\* passes when blurRadius > 8, the radius handed to applyFastGaussianBlur
\* being min(blurRadius, 20); there are never 3 passes.
C26_ApplyPasses ==
  (lastCall.op = "apply" /\ status = "ok") =>
    /\ frame.shadowMask =
         MaxNormalized(Repeated(ShadowSmoothMask(frame.luminanceFloat,
                                                 FMul(F05, tonalWidth)),
                                ApplyPassRadius, ApplyPasses))
    /\ frame.highlightMask =
         MaxNormalized(Repeated(HighlightSmoothMask(frame.luminanceFloat,
                                                    FSub(F1, FMul(F05, tonalWidth))),
                                ApplyPassRadius, ApplyPasses))

\* the scenario image went through apply with blurRadius 50 and tonalWidth 1,
\* and the blur spread the shadow mask
C26_Witness ==
  /\ lastCall.op = "apply"
  /\ status = "ok"
  /\ callerImage = ScenarioImage
  /\ blurRadius = F50
  /\ tonalWidth = F1
  /\ frame.shadowMask # MaxNormalized(ShadowSmoothMask(frame.luminanceFloat, F05))

\* C27 as stated: for lum, both masks and both amounts in [0, 1] the value
\* before the clamp already lies in [lum * 0.3, 1 - (1 - lum) * 0.3], so that
\* the stored result is the value before the clamp.
C27_ClampInactive ==
  (direct.op = "applyAdvancedCorrection" /\ InUnit(direct.luminance)
     /\ InUnit(direct.shadowMask) /\ InUnit(direct.highlightMask)) =>
    \A i \in 1..Total(direct.luminance) :
      /\ Within(Uncorrected(direct.luminance.data[i], direct.shadowMask.data[i],
                            direct.highlightMask.data[i]),
                FMul(direct.luminance.data[i], F03),
                FSub(F1, FMul(FSub(F1, direct.luminance.data[i]), F03)))
      /\ direct.result.data[i] =
           Uncorrected(direct.luminance.data[i], direct.shadowMask.data[i],
                       direct.highlightMask.data[i])

\* C27, amended: for lum, both masks and both amounts in [0, 1] the clamp
\* changes the value by no more than rounding: the stored result is within
\* 2^-20 of the value before the clamp, relative to that value.
C27_ClampWithinRounding ==
  (direct.op = "applyAdvancedCorrection" /\ InUnit(direct.luminance)
     /\ InUnit(direct.shadowMask) /\ InUnit(direct.highlightMask)) =>
    \A i \in 1..Total(direct.luminance) :
      Rounded(direct.result.data[i],
              Uncorrected(direct.luminance.data[i], direct.shadowMask.data[i],
                          direct.highlightMask.data[i]))

\* the full shadow correction of a pixel of luminance 0.4 came out of the
\* clamp one unit in the last place lower
C27_Witness ==
  /\ direct.op = "applyAdvancedCorrection"
  /\ shadowAmount = F1
  /\ highlightAmount = F0
  /\ direct.luminance.data = << Ratio(4, 10) >>
  /\ direct.shadowMask.data = << F1 >>
  /\ FLt(direct.result.data[1],
         Uncorrected(direct.luminance.data[1], direct.shadowMask.data[1],
                     direct.highlightMask.data[1]))

-----------------------------------------------------------------------------
(* The claims about the masks of particular planes *)

\* every value of the mask is v
AllAre(mask, v) == \A i \in 1..Total(mask) : mask.data[i] = v

\* C28 as stated: for a luminance plane with one value in [0, 1] at every
\* pixel, whatever tonalWidth and blurRadius, each mask is 0 at every pixel or
\* 1 at every pixel; a plane strictly inside the shadow falloff band gets the
\* shadow mask 1 everywhere.
C28_UniformMasks ==
  (direct.op = "createAdvancedMasks" /\ IsConstant(direct.luminance)
     /\ InUnit(direct.luminance)) =>
    /\ AllAre(direct.shadowMask, F0) \/ AllAre(direct.shadowMask, F1)
    /\ AllAre(direct.highlightMask, F0) \/ AllAre(direct.highlightMask, F1)
    /\ (/\ FLt(FMul(F03, FMul(F05, tonalWidth)), direct.luminance.data[1])
        /\ FLt(direct.luminance.data[1], FMul(F05, tonalWidth))) =>
         AllAre(direct.shadowMask, F1)

\* C29: the mask builders never divide by zero: the falloff division by
\* threshold * 0.7 and the ramp division by threshold * 0.1 are only executed
\* with a strictly positive divisor; with tonalWidth = 0 the shadow mask
\* before normalisation is 1 exactly where lum <= 0 and 0 elsewhere.
C29_NoZeroDivisor ==
  direct.op = "createAdvancedMasks" =>
    /\ \A d \in direct.divisors : FGt(d, F0)
    /\ \A i \in 1..Total(direct.luminance) :
         /\ ~IsNaN(direct.smoothShadowMask.data[i])
         /\ tonalWidth = F0 =>
              direct.smoothShadowMask.data[i] =
                (IF FLe(direct.luminance.data[i], F0) THEN F1 ELSE F0)

\* masks were built with tonalWidth 0 for a plane with a pixel at 0 and one
\* above, and the highlight ramp divided
C29_Witness ==
  /\ direct.op = "createAdvancedMasks"
  /\ tonalWidth = F0
  /\ direct.luminance.data = << F0, Ratio(95, 100) >>
  /\ direct.divisors # {}
  /\ direct.smoothShadowMask.data = << F1, F0 >>

-----------------------------------------------------------------------------
(* The claims about the buffers of apply *)

\* the buffer has the rows and columns of the image apply was given
InputSized(m) == m.rows = callerImage.rows /\ m.cols = callerImage.cols

\* C30: in every successful apply every intermediate buffer (the Lab image,
\* the three planes, the normalized luminance, both masks, the corrected and
\* the denormalized luminance) has the rows and columns of the input image;
\* the three planes handed to mergeLab have the same dimensions and mergeLab
\* reads inside them; the returned image has the input's rows and columns.
C30_BuffersInputSized ==
  (lastCall.op = "apply" /\ status = "ok") =>
    /\ InputSized(frame.labImage)
    /\ Len(frame.labChannels) = 3
    /\ \A k \in 1..3 : InputSized(frame.labChannels[k])
    /\ InputSized(frame.luminanceFloat)
    /\ InputSized(frame.shadowMask)
    /\ InputSized(frame.highlightMask)
    /\ InputSized(frame.correctedLuminance)
    /\ InputSized(frame.denormalizedLuminance)
    /\ Len(frame.merged) = 3
    /\ SameSize(frame.merged)
    /\ ~ReadsOutsidePlane(frame.merged)
    /\ ~ReadsPastPlane(frame.merged)
    /\ \A k \in 1..3 : Len(frame.merged[k].data) = Total(frame.merged[k])
    /\ InputSized(output)

\* the 2 x 2 scenario image went through apply with a blur
C30_Witness ==
  /\ lastCall.op = "apply"
  /\ status = "ok"
  /\ callerImage = ScenarioImage
  /\ blurRadius = FromInt(5)
  /\ frame.denormalizedLuminance.rows = 2
  /\ output.cols = 2

=============================================================================
